---------------------------- MODULE Spec2Model ----------------------------
(***************************************************************************)
(* State-machine model of the turn resolution engine of glax_war           *)
(* (src/turn_engine.py, src/game_engine.py, src/galaxy_generator.py and    *)
(* the assault endpoint of src/server.py).                                 *)
(*                                                                         *)
(* Units.  The program computes with floats; the model computes with       *)
(* integers in fixed units so that every comparison the code makes is      *)
(* decided exactly as in exact arithmetic:                                 *)
(*   resources            tenths            (energy 500.0  ->  5000)       *)
(*   research progress    thousandths       (cost 100.0    ->  100000)     *)
(*   power score          1/20000           (see calculate_faction_power)  *)
(*   proficiency          tenths                                           *)
(* A world is a record holding the fields of GameState; every stage of     *)
(* the pipeline is an operator from a world to a world, or, where the      *)
(* code draws random numbers, to the set of worlds the draws can give.     *)
(***************************************************************************)
EXTENDS Integers, Sequences, FiniteSets, TLC

VARIABLES
    connections,      \* GameState.connections : the list of planet pairs
    turn,             \* GameState.turn
    planets,          \* GameState.planets   : planet id -> Planet
    factions,         \* GameState.factions  : faction id -> Faction
    fleets,           \* GameState.fleets    : fleet id -> Fleet
    siege,            \* GameState.siege     : planet id -> (attacker id -> points)
    events,           \* the entries appended to GameState.events by the last handler
    game_over,        \* GameState.game_over
    winner,           \* GameState.winner
    end_reason,       \* GameState.end_reason
    final_scores,     \* GameState.final_scores
    allow_postgame,   \* GameState.allow_postgame
    colonize_counts,  \* GameState.colonize_counts
    econ_history,     \* GameState.econ_history
    power_history,    \* GameState.power_history
    max_turns,        \* GameState.max_turns
    victory_config,   \* GameState.victory_config (the tech-victory keys)
    clock,            \* real time against truce_until and game_start_time + 600
    exc,              \* the exception that escaped the last handler, or NONE
    last              \* the last handler called and what it returned

vars == <<connections, turn, planets, factions, fleets, siege, events, game_over, winner,
          end_reason, final_scores, allow_postgame, colonize_counts,
          econ_history, power_history, max_turns, victory_config, clock, exc, last>>

-----------------------------------------------------------------------------
(* Identifiers *)

NONE == "none"

\* Iteration order of the dicts game_state.factions / planets / fleets
\* (Python dicts iterate in insertion order).
FactionOrder == <<"player", "ai_0">>
PlanetOrder == <<"p0", "p1", "p2", "p3", "p4", "p5", "p6", "p7">>

\* the two fleets of _initialize_factions, then the fleets of create_fleet,
\* whose id ends in the number of fleets at its creation
FleetOrder ==
    <<"fleet_player_0", "fleet_ai_0_0",
      "fleet_player_2", "fleet_ai_0_2", "fleet_player_3", "fleet_ai_0_3",
      "fleet_player_4", "fleet_ai_0_4", "fleet_player_5", "fleet_ai_0_5",
      "fleet_player_6", "fleet_ai_0_6", "fleet_player_7", "fleet_ai_0_7",
      "fleet_player_8", "fleet_ai_0_8", "fleet_player_9", "fleet_ai_0_9",
      "fleet_player_10", "fleet_ai_0_10", "fleet_player_11", "fleet_ai_0_11">>

\* Ids that no dict of the game state holds.
GHOST_FACTION == "ghost_faction"
GHOST_PLANET == "ghost_planet"
GHOST_FLEET == "ghost_fleet"
GHOST_TECH == "ghost_tech"

\* a generated galaxy: the path p0 - p1 - p2 - p3
PathGalaxy == << <<"p0", "p1">>, <<"p1", "p2">>, <<"p2", "p3">> >>

\* a generated galaxy: the path from p0 to p6, six hops long
LongGalaxy ==
    PathGalaxy \o << <<"p3", "p4">>, <<"p4", "p5">>, <<"p5", "p6">> >>

\* a generated galaxy: the path and the planets p4, p5, p6, p7, each
\* connected to p0 alone
StarGalaxy ==
    PathGalaxy \o << <<"p0", "p4">>, <<"p0", "p5">>, <<"p0", "p6">>, <<"p0", "p7">> >>

Range(s) == {s[i] : i \in DOMAIN s}

Min(a, b) == IF a < b THEN a ELSE b
Max(a, b) == IF a > b THEN a ELSE b

\* {}
EmptyDict == [x \in {} |-> 0]

\* dict.get(k, default)
DictGet(d, k, default) == IF k \in DOMAIN d THEN d[k] ELSE default

\* d[k] = v on a dict (the key is added when missing)
DictSet(d, k, v) == [x \in (DOMAIN d) \cup {k} |-> IF x = k THEN v ELSE d[x]]

\* d.pop(k, None) / del d[k]
DictPop(d, k) == [x \in (DOMAIN d) \ {k} |-> d[x]]

\* k in list
InList(k, s) == \E i \in DOMAIN s : s[i] = k

\* list.remove(k): removes the first occurrence
RECURSIVE ListRemove(_, _)
ListRemove(s, k) ==
    IF s = <<>> THEN <<>>
    ELSE IF Head(s) = k THEN Tail(s)
    ELSE <<Head(s)>> \o ListRemove(Tail(s), k)

\* number of entries of list s satisfying "equals k"
RECURSIVE CountIn(_, _)
CountIn(s, k) ==
    IF s = <<>> THEN 0
    ELSE (IF Head(s) = k THEN 1 ELSE 0) + CountIn(Tail(s), k)

\* the entries of an ordered id list that are keys of dict d, in order
RECURSIVE KeysInOrder(_, _)
KeysInOrder(order, d) ==
    IF order = <<>> THEN <<>>
    ELSE (IF Head(order) \in DOMAIN d THEN <<Head(order)>> ELSE <<>>)
         \o KeysInOrder(Tail(order), d)

-----------------------------------------------------------------------------
(* Galaxy collaborator *)

\* GalaxyGenerator.get_connected_planets: neighbours in connection order
RECURSIVE ConnectedFrom(_, _)
ConnectedFrom(conns, planet_id) ==
    IF conns = <<>> THEN <<>>
    ELSE LET conn == Head(conns) IN
         (IF conn[1] = planet_id THEN <<conn[2]>>
          ELSE IF conn[2] = planet_id THEN <<conn[1]>>
          ELSE <<>>) \o ConnectedFrom(Tail(conns), planet_id)

get_connected_planets(planet_id) == ConnectedFrom(connections, planet_id)

\* the nodes of the graph get_distance builds from the connections
GraphNodes == UNION {{connections[i][1], connections[i][2]} : i \in DOMAIN connections}

RECURSIVE Reach(_, _)
\* the nodes within k hops of the set S
Reach(S, k) ==
    IF k = 0 THEN S
    ELSE Reach(S \cup {n \in GraphNodes : \E m \in S : InList(n, get_connected_planets(m))}, k - 1)

\* nx.shortest_path_length raises NodeNotFound when an end is not a node of
\* the graph; get_distance catches NetworkXNoPath only, so this one escapes
NodeNotFound(a, b) == a \notin GraphNodes \/ b \notin GraphNodes

\* GalaxyGenerator.get_distance when it returns: the hop count, -1 when there
\* is no path
get_distance(a, b) ==
    IF b \notin Reach({a}, Cardinality(GraphNodes)) THEN -1
    ELSE CHOOSE k \in 0..Cardinality(GraphNodes) :
            /\ b \in Reach({a}, k)
            /\ \A j \in 0..(k - 1) : b \notin Reach({a}, j)

-----------------------------------------------------------------------------
(* Data model (src/game_engine.py) *)

\* Fleet.get_strength: the ship_power table
ship_power == [scout |-> 1, corvette |-> 3, destroyer |-> 8, cruiser |-> 20, battleship |-> 50]

ShipTypeOrder == <<"scout", "corvette", "destroyer", "cruiser", "battleship">>

RECURSIVE SumShips(_, _, _)
\* sum over the ship types of ships of weight[type] * count
SumShips(order, ships, weight) ==
    IF order = <<>> THEN 0
    ELSE (IF Head(order) \in DOMAIN ships THEN weight[Head(order)] * ships[Head(order)] ELSE 0)
         + SumShips(Tail(order), ships, weight)

\* Fleet.get_strength
get_strength(fleet) == SumShips(ShipTypeOrder, fleet.ships, ship_power)

\* sum(int(v) for v in fl.ships.values())
ShipCount(fleet) == SumShips(ShipTypeOrder, fleet.ships, [t \in DOMAIN ship_power |-> 1])

\* the world: the fields of GameState a handler reads and writes, plus exc,
\* the exception in flight (NONE while the handler runs normally)
World == [turn |-> turn, planets |-> planets, factions |-> factions, fleets |-> fleets,
          siege |-> siege, events |-> <<>>, game_over |-> game_over, winner |-> winner,
          end_reason |-> end_reason, final_scores |-> final_scores,
          colonize_counts |-> colonize_counts, econ_history |-> econ_history,
          power_history |-> power_history, exc |-> NONE]

\* GameState.add_event with a data bag: ref is the id the data names (planet,
\* fleet, technology or target), info what else a property reads from the data
add_event_info(w, event_type, faction, ref, info) ==
    [w EXCEPT !.events = Append(@, [event_type |-> event_type, faction |-> faction,
                                    ref |-> ref, info |-> info, turn |-> w.turn])]

\* GameState.add_event
add_event(w, event_type, faction, ref) == add_event_info(w, event_type, faction, ref, NONE)

\* raise: the world with the exception in flight
Raise(w, e) == [w EXCEPT !.exc = e]

RECURSIVE SumOver(_, _, _)
\* sum of f[id] over the ids of list s that are keys of f (others count 0)
SumOver(s, f, default) ==
    IF s = <<>> THEN 0
    ELSE (IF Head(s) \in DOMAIN f THEN f[Head(s)] ELSE default) + SumOver(Tail(s), f, default)

\* number of buildings of one type on a planet
CountBuildings(planet, b) == CountIn(planet.buildings, b)

\* the reputation modifier of calculate_faction_power, times 200:
\* 1.0 + max(-0.3, min(0.3, (reputation - 50) / 200))
reputation_mod(reputation) == 200 + Max(-60, Min(60, reputation - 50))

\* calculate_faction_power, times 20000 (sum of the six scores times 100,
\* reputation modifier times 200)
calculate_faction_power(w, faction) ==
    LET resource_score == faction.resources.energy * 6 + faction.resources.minerals * 8
                          + faction.resources.research * 10
        planet_score == Len(faction.planets) * 12000
        population_score == SumOver(faction.planets,
                              [p \in DOMAIN w.planets |-> w.planets[p].population * 150], 0)
        defense_score == SumOver(faction.planets,
                              [p \in DOMAIN w.planets |->
                                  CountBuildings(w.planets[p], "defense_station") * 5000], 0)
        fleet_power == SumOver(faction.fleets,
                              [f \in DOMAIN w.fleets |-> get_strength(w.fleets[f]) * 200], 0)
        tech_score == Len(faction.technologies) * 9000
    IN (resource_score + planet_score + population_score + defense_score
        + fleet_power + tech_score) * reputation_mod(faction.reputation)

\* one unit of power (1.0) in the model's power unit
POWER_UNIT == 20000

\* Technology.cost of _initialize_technologies, in thousandths
technologies == [tech_laser |-> 100000, tech_shields |-> 1700000, tech_ftl |-> 200000,
                 tech_colonization |-> 120000, tech_mining |-> 130000, tech_power |-> 140000]

\* the values of the enum BuildingType
BuildingType == {"energy_plant", "mining_station", "research_lab", "shipyard", "defense_station"}

\* the values of the enum DiplomacyStatus
DiplomacyStatus == {"neutral", "friendly", "allied", "hostile", "war"}

-----------------------------------------------------------------------------
(* Commands.  A command is [faction_id, command_type, a, b]; a and b are   *)
(* the two parameters of its type:                                         *)
(*   colonize  a = to_planet   b = from_planet                             *)
(*   build     a = planet      b = building                                *)
(*   move      a = fleet       b = destination                             *)
(*   research  a = technology                                              *)
(*   diplomacy a = target      b = status   (action = change_status)       *)
(*   strategy  a = mode        b = target                                  *)

Command(f, t, a, b) == [faction_id |-> f, command_type |-> t, a |-> a, b |-> b]

\* BuildingsFull for a planet without a building limit
BuildingsFull_Never(planet) == FALSE

\* len(planet.buildings) >= 5
BuildingsFull(planet) == Len(planet.buildings) >= 5

\* TurnEngine._execute_build
_execute_build(w, command) ==
    IF command.faction_id \notin DOMAIN w.factions THEN Raise(w, "KeyError")
    ELSE IF command.b \notin BuildingType THEN Raise(w, "ValueError")
    ELSE IF command.a \notin DOMAIN w.planets THEN Raise(w, "KeyError")
    ELSE LET planet == w.planets[command.a] IN
         IF planet.owner /= command.faction_id THEN w
         ELSE IF BuildingsFull(planet) THEN w
         ELSE IF planet.population <= 0 THEN w
         ELSE add_event(
                [w EXCEPT !.planets[command.a].population = @ - 1,
                          !.planets[command.a].buildings = Append(@, command.b)],
                "construction", command.faction_id, command.a)

\* TurnEngine._execute_move
_execute_move(w, command) ==
    IF command.faction_id \notin DOMAIN w.factions THEN Raise(w, "KeyError")
    ELSE LET fleet_id == command.a
             destination == command.b
         IN IF fleet_id \notin DOMAIN w.fleets THEN w
            ELSE IF w.fleets[fleet_id].owner /= command.faction_id THEN w
            ELSE LET moved == [w EXCEPT !.fleets[fleet_id].destination = destination,
                                        !.fleets[fleet_id].travel_progress = 0]
                 IN \* the event text reads planets[destination].name
                    IF destination \notin DOMAIN w.planets THEN Raise(moved, "KeyError")
                    ELSE add_event(moved, "fleet_movement", command.faction_id, fleet_id)

\* TurnEngine._execute_research
_execute_research(w, command) ==
    IF command.faction_id \notin DOMAIN w.factions THEN Raise(w, "KeyError")
    ELSE LET tech_id == command.a IN
         IF tech_id \in DOMAIN w.factions[command.faction_id].research_progress THEN w
         ELSE add_event(
                [w EXCEPT !.factions[command.faction_id].research_progress = DictSet(@, tech_id, 0)],
                "research_started", command.faction_id, tech_id)

\* Betrayal for a penalty on every change to hostile or war
Betrayal_AnyDowngrade(old_status, new_status) == new_status \in {"hostile", "war"}

\* old_status == ALLIED and new_status in [HOSTILE, WAR]
Betrayal(old_status, new_status) ==
    old_status = "allied" /\ new_status \in {"hostile", "war"}

\* TurnEngine._execute_diplomacy (action = change_status)
_execute_diplomacy(w, command) ==
    IF command.faction_id \notin DOMAIN w.factions THEN Raise(w, "KeyError")
    ELSE IF command.b \notin DiplomacyStatus THEN Raise(w, "ValueError")
    ELSE LET fid == command.faction_id
             target_id == command.a
             new_status == command.b
             old_status == DictGet(w.factions[fid].diplomacy, target_id, "neutral")
             betrayal == Betrayal(old_status, new_status)
             w1 == IF betrayal
                   THEN add_event_info([w EXCEPT !.factions[fid].reputation = @ - 30],
                                       "betrayal", fid, target_id, [reputation_loss |-> 30])
                   ELSE w
             w2 == [w1 EXCEPT !.factions[fid].diplomacy = DictSet(@, target_id, new_status)]
         IN IF target_id \notin DOMAIN w.factions THEN Raise(w2, "KeyError")
            ELSE add_event(
                   [w2 EXCEPT !.factions[target_id].diplomacy = DictSet(@, fid, new_status)],
                   "diplomacy", fid, target_id)

\* ValidTarget that lets a faction attack itself
ValidTarget_Self(w, fid, target_id) == target_id /= NONE /\ target_id \in DOMAIN w.factions

\* target_id and target_id in self.game_state.factions and target_id != faction.id
ValidTarget(w, fid, target_id) ==
    target_id /= NONE /\ target_id \in DOMAIN w.factions /\ target_id /= fid

\* TurnEngine._execute_strategy
_execute_strategy(w, command) ==
    IF command.faction_id \notin DOMAIN w.factions THEN Raise(w, "KeyError")
    ELSE LET fid == command.faction_id
             mode == command.a
             target_id == command.b
         IN IF mode = "attack"
            THEN IF ValidTarget(w, fid, target_id)
                 THEN add_event(
                        [w EXCEPT !.factions[fid].strategy_mode = "attack",
                                  !.factions[fid].war_target = target_id,
                                  !.factions[fid].defense_focus = <<>>],
                        "strategy", fid, target_id)
                 ELSE w
            ELSE IF mode = "defend"
            THEN add_event(
                   [w EXCEPT !.factions[fid].strategy_mode = "defend",
                             !.factions[fid].war_target = NONE,
                             !.factions[fid].defense_focus = <<>>],
                   "strategy", fid, NONE)
            ELSE [w EXCEPT !.factions[fid].strategy_mode = "peace",
                           !.factions[fid].war_target = NONE,
                           !.factions[fid].defense_focus = <<>>]

-----------------------------------------------------------------------------
(* Colonization arbiter *)

\* the worlds F gives from each world of S
Bind(S, F(_)) == UNION {F(x) : x \in S}

\* KeyLeq with the key (origin_population, power)
KeyLeq_PopulationFirst(c1, c2) ==
    \/ c1.origin_population < c2.origin_population
    \/ c1.origin_population = c2.origin_population /\ c1.power <= c2.power

\* key of contenders.sort: (power, origin_population), compared as tuples
KeyLeq(c1, c2) ==
    \/ c1.power < c2.power
    \/ c1.power = c2.power /\ c1.origin_population <= c2.origin_population

RECURSIVE InsertSorted(_, _)
\* insert c after the entries whose key is <= its own (a stable sort)
InsertSorted(sorted, c) ==
    IF sorted = <<>> THEN <<c>>
    ELSE IF KeyLeq(Head(sorted), c) THEN <<Head(sorted)>> \o InsertSorted(Tail(sorted), c)
    ELSE <<c>> \o sorted

RECURSIVE SortContenders(_, _)
\* contenders.sort(key=lambda item: (item[0], item[1])); acc is the sorted prefix
SortContenders(contenders, acc) ==
    IF contenders = <<>> THEN acc
    ELSE SortContenders(Tail(contenders), InsertSorted(acc, Head(contenders)))

\* population a colonization takes from the origin: 3 with tech_colonization, else 10
Consume(faction) == IF InList("tech_colonization", faction.technologies) THEN 3 ELSE 10

\* the per-turn colonization quota of a faction
COLONIZE_QUOTA == 4

\* the population every colonization leaves on its origin planet
ORIGIN_FLOOR == 10

\* QuotaUsed for a resolver without a quota
QuotaUsed_Never(w, fid) == FALSE

\* used = colonize_counts.get(faction.id, 0); used >= 4
QuotaUsed(w, fid) == DictGet(w.colonize_counts, fid, 0) >= COLONIZE_QUOTA

RECURSIVE CollectContenders(_, _, _, _)
\* the loop over command_list of _resolve_colonize_conflicts: the world (the
\* colonization_failed events it appends) and the contenders it collects
CollectContenders(w, planet_id, command_list, contenders) ==
    IF command_list = <<>> THEN [w |-> w, contenders |-> contenders]
    ELSE LET command == Head(command_list)
             rest == Tail(command_list)
             fid == command.faction_id
             from_planet == command.b
         IN IF fid \notin DOMAIN w.factions
            THEN CollectContenders(w, planet_id, rest, contenders)
            ELSE IF from_planet = NONE \/ ~InList(from_planet, w.factions[fid].planets)
            THEN CollectContenders(w, planet_id, rest, contenders)
            ELSE IF ~InList(planet_id, get_connected_planets(from_planet))
            THEN CollectContenders(w, planet_id, rest, contenders)
            ELSE IF from_planet \notin DOMAIN w.planets
            THEN CollectContenders(w, planet_id, rest, contenders)
            ELSE IF QuotaUsed(w, fid)
            THEN CollectContenders(add_event(w, "colonization_failed", fid, planet_id),
                                   planet_id, rest, contenders)
            ELSE IF w.planets[from_planet].population < ORIGIN_FLOOR + Consume(w.factions[fid])
            THEN CollectContenders(add_event(w, "colonization_failed", fid, planet_id),
                                   planet_id, rest, contenders)
            ELSE CollectContenders(w, planet_id, rest,
                    Append(contenders,
                           [power |-> calculate_faction_power(w, w.factions[fid]),
                            origin_population |-> w.planets[from_planet].population,
                            faction |-> fid, from_planet |-> from_planet]))

RECURSIVE ContestedEvents(_, _, _)
\* the colonization_contested events of contenders[:-1]
ContestedEvents(w, losers, planet_id) ==
    IF losers = <<>> THEN w
    ELSE ContestedEvents(add_event(w, "colonization_contested", Head(losers).faction, planet_id),
                         Tail(losers), planet_id)

\* random.randint(1, 5) with tech_colonization, else 0
BonusPop(faction) == IF InList("tech_colonization", faction.technologies) THEN 1..5 ELSE {0}

\* the winner's colonization of planet_id from winner_from with the drawn bonus
Colonize(w, planet_id, won, bonus_pop) ==
    LET fid == won.faction
        consume == Consume(w.factions[fid])
    IN [w EXCEPT !.planets[planet_id].owner = fid,
                 !.planets[planet_id].population = 10 + bonus_pop,
                 !.factions[fid].planets =
                     IF InList(planet_id, @) THEN @ ELSE Append(@, planet_id),
                 !.planets[won.from_planet].population = Max(ORIGIN_FLOOR, @ - consume),
                 !.colonize_counts = DictSet(@, fid, DictGet(@, fid, 0) + 1)]

\* TargetFree for a resolver that takes every target
TargetFree_Always(w, planet_id) == TRUE

\* target.owner is None
TargetFree(w, planet_id) == w.planets[planet_id].owner = NONE

\* one iteration of the loop over batches of _resolve_colonize_conflicts
ResolveBatch(w, planet_id, command_list) ==
    IF planet_id \notin DOMAIN w.planets THEN {w}
    ELSE IF ~TargetFree(w, planet_id) THEN {w}
    ELSE LET got == CollectContenders(w, planet_id, command_list, <<>>)
             sorted == SortContenders(got.contenders, <<>>)
             won == sorted[Len(sorted)]
         IN IF got.contenders = <<>> THEN {got.w}
            ELSE IF got.w.planets[won.from_planet].population
                        < ORIGIN_FLOOR + Consume(got.w.factions[won.faction])
            THEN {add_event(got.w, "colonization_failed", won.faction, planet_id)}
            ELSE {ContestedEvents(
                     add_event(Colonize(got.w, planet_id, won, bonus_pop),
                               "colonization", won.faction, planet_id),
                     SubSeq(sorted, 1, Len(sorted) - 1), planet_id)
                  : bonus_pop \in BonusPop(got.w.factions[won.faction])}

RECURSIVE BatchKeys(_, _)
\* the keys of colonize_batches in insertion order
BatchKeys(commands, keys) ==
    IF commands = <<>> THEN keys
    ELSE LET c == Head(commands) IN
         BatchKeys(Tail(commands),
                   IF c.command_type = "colonize" /\ c.a /= NONE /\ ~InList(c.a, keys)
                   THEN Append(keys, c.a) ELSE keys)

\* colonize_batches[to_planet]
BatchOf(commands, to_planet) ==
    SelectSeq(commands, LAMBDA c : c.command_type = "colonize" /\ c.a = to_planet)

RECURSIVE ResolveBatches(_, _, _)
\* TurnEngine._resolve_colonize_conflicts
ResolveBatches(w, keys, commands) ==
    IF keys = <<>> THEN {w}
    ELSE Bind(ResolveBatch(w, Head(keys), BatchOf(commands, Head(keys))),
              LAMBDA x : ResolveBatches(x, Tail(keys), commands))

\* the dispatch of one command inside the try block of _execute_commands
Dispatch(w, command) ==
    CASE command.command_type = "colonize" -> w
      [] command.command_type = "build" -> _execute_build(w, command)
      [] command.command_type = "move" -> _execute_move(w, command)
      [] command.command_type = "research" -> _execute_research(w, command)
      [] command.command_type = "diplomacy" -> _execute_diplomacy(w, command)
      [] command.command_type = "strategy" -> _execute_strategy(w, command)
      [] OTHER -> w

\* Caught without the except clause: the exception of a command escapes
Caught_Uncaught(w, command) == w

\* the except clause of _execute_commands: the exception of one command
\* becomes a command_failed event
Caught(w, command) ==
    IF w.exc = NONE THEN w
    ELSE add_event([w EXCEPT !.exc = NONE], "command_failed", command.faction_id, w.exc)

RECURSIVE RunCommands(_, _)
\* the loop over commands of _execute_commands
RunCommands(w, commands) ==
    IF commands = <<>> \/ w.exc /= NONE THEN w
    ELSE RunCommands(Caught(Dispatch(w, Head(commands)), Head(commands)), Tail(commands))

\* TurnEngine._execute_commands
_execute_commands(w, commands) ==
    LET ran == RunCommands(w, commands) IN
    IF ran.exc /= NONE THEN {ran}
    ELSE ResolveBatches(ran, BatchKeys(commands, <<>>), commands)

-----------------------------------------------------------------------------
(* Economy, population, military capacity, research *)

\* Planet.calculate_production, in tenths
calculate_production(planet) ==
    [energy |-> 50 + 100 * CountBuildings(planet, "energy_plant") + 5 * planet.population,
     minerals |-> 30 + 100 * CountBuildings(planet, "mining_station") + 3 * planet.population,
     research |-> 10 + 100 * CountBuildings(planet, "research_lab") + 2 * planet.population]

\* the body of the loop over factions of _process_resource_production
ProduceFor(w, fid) ==
    LET owned == w.factions[fid].planets
        prod == [p \in DOMAIN w.planets |-> calculate_production(w.planets[p])]
        total == [energy |-> SumOver(owned, [p \in DOMAIN prod |-> prod[p].energy], 0),
                  minerals |-> SumOver(owned, [p \in DOMAIN prod |-> prod[p].minerals], 0),
                  research |-> SumOver(owned, [p \in DOMAIN prod |-> prod[p].research], 0)]
        econ_score == total.energy + total.minerals + total.research
    IN [w EXCEPT !.factions[fid].resources.energy = @ + total.energy,
                 !.factions[fid].resources.minerals = @ + total.minerals,
                 !.factions[fid].resources.research = @ + total.research,
                 !.econ_history = DictSet(@, fid, Append(DictGet(@, fid, <<>>), econ_score))]

RECURSIVE ProduceAll(_, _)
\* for faction in self.game_state.factions.values()
ProduceAll(w, order) ==
    IF order = <<>> THEN w ELSE ProduceAll(ProduceFor(w, Head(order)), Tail(order))

\* TurnEngine._process_resource_production
_process_resource_production(w) == ProduceAll(w, KeysInOrder(FactionOrder, w.factions))

\* the body of the loop over planets of _process_population_growth
GrowPlanet(w, pid) ==
    LET planet == w.planets[pid] IN
    IF planet.owner = NONE \/ planet.owner \notin DOMAIN w.factions THEN w
    ELSE LET faction == w.factions[planet.owner]
             delta == (IF InList("energy_plant", planet.buildings) THEN 1 ELSE 0)
                      + Min(3, faction.resources.energy \div 5000)
                      + (IF InList("tech_power", faction.technologies) THEN 1 ELSE 0)
         IN IF delta > 0 THEN [w EXCEPT !.planets[pid].population = @ + delta] ELSE w

RECURSIVE GrowAll(_, _)
\* for planet in self.game_state.planets.values()
GrowAll(w, order) ==
    IF order = <<>> THEN w ELSE GrowAll(GrowPlanet(w, Head(order)), Tail(order))

\* TurnEngine._process_population_growth
_process_population_growth(w) == GrowAll(w, KeysInOrder(PlanetOrder, w.planets))

\* the largest number of attack or defense charges of one faction in one turn
MAX_CHARGES == 6

\* the body of the loop over factions of _refresh_military_capacity
RefreshFor(w, fid) ==
    LET faction == w.factions[fid]
        power == calculate_faction_power(w, faction)
        base == 1 + Max(0, w.turn \div 5)
        bonus == power \div (600 * POWER_UNIT)
        defense_structures ==
            SumOver(faction.planets,
                    [p \in DOMAIN w.planets |-> CountBuildings(w.planets[p], "defense_station")], 0)
        defense_bonus == defense_structures \div 2
    IN [w EXCEPT !.factions[fid].attack_charges = Max(1, Min(MAX_CHARGES, base + bonus)),
                 !.factions[fid].defense_charges = Max(1, Min(MAX_CHARGES, base + defense_bonus)),
                 !.factions[fid].defense_focus =
                     SelectSeq(@, LAMBDA p : InList(p, faction.planets))]

RECURSIVE RefreshAll(_, _)
\* for faction in self.game_state.factions.values()
RefreshAll(w, order) ==
    IF order = <<>> THEN w ELSE RefreshAll(RefreshFor(w, Head(order)), Tail(order))

\* TurnEngine._refresh_military_capacity
_refresh_military_capacity(w) == RefreshAll(w, KeysInOrder(FactionOrder, w.factions))

\* the order in which the model walks a faction's research_progress dict
TechOrder == <<"tech_laser", "tech_shields", "tech_ftl", "tech_colonization",
               "tech_mining", "tech_power", GHOST_TECH>>

\* the tech-victory test shared by _check_tech_victory_on_research and
\* _check_tech_victory_global, for one faction: the end reason, or NONE
TechVictoryReason(w, cfg, fid) ==
    LET techs == w.factions[fid].technologies
        total_cost == SumOver(techs, technologies, 0)
    IN IF cfg.tech_required_ids /= {} /\ cfg.tech_required_ids \subseteq Range(techs)
       THEN "tech_required"
       ELSE IF cfg.tech_score_threshold > 0 /\ total_cost >= cfg.tech_score_threshold
       THEN "tech_score"
       ELSE NONE

\* _calc_all_scores
_calc_all_scores(w) == [f \in DOMAIN w.factions |-> calculate_faction_power(w, w.factions[f])]

\* TurnEngine._check_tech_victory_on_research; truce is "the truce is active"
_check_tech_victory_on_research(w, cfg, truce, fid) ==
    IF ~cfg.tech_victory_enabled \/ w.game_over THEN w
    ELSE IF truce THEN w
    ELSE LET reason == TechVictoryReason(w, cfg, fid) IN
         IF reason = NONE THEN w
         ELSE [w EXCEPT !.game_over = TRUE, !.winner = fid, !.end_reason = reason,
                        !.final_scores = _calc_all_scores(w)]

RECURSIVE TechVictorySweep(_, _, _)
\* the loop over factions of _check_tech_victory_global
TechVictorySweep(w, cfg, order) ==
    IF order = <<>> \/ w.game_over THEN w
    ELSE LET reason == TechVictoryReason(w, cfg, Head(order)) IN
         IF reason = NONE THEN TechVictorySweep(w, cfg, Tail(order))
         ELSE [w EXCEPT !.game_over = TRUE, !.winner = Head(order), !.end_reason = reason,
                        !.final_scores = _calc_all_scores(w)]

\* TurnEngine._check_tech_victory_global
_check_tech_victory_global(w, cfg, truce) ==
    IF ~cfg.tech_victory_enabled \/ w.game_over THEN w
    ELSE IF truce THEN w
    ELSE TechVictorySweep(w, cfg, KeysInOrder(FactionOrder, w.factions))

\* research points a faction adds to each technology in progress, in thousandths
research_speed(w, fid) ==
    LET faction == w.factions[fid]
        labs == SumOver(faction.planets,
                        [p \in DOMAIN w.planets |-> CountBuildings(w.planets[p], "research_lab")], 0)
    IN faction.resources.minerals * 2 + faction.resources.research * 5 + labs * 5000

\* AlreadyKnown for a research stage that does not look at the completed list
AlreadyKnown_Never(faction, tech_id) == FALSE

\* if tech_id in faction.technologies (line 449)
AlreadyKnown(faction, tech_id) == InList(tech_id, faction.technologies)

RECURSIVE ResearchLoop(_, _, _, _, _, _)
\* the loop over faction.research_progress of _process_research, then the
\* removal of the completed entries
ResearchLoop(w, cfg, truce, fid, order, completed) ==
    IF order = <<>>
    THEN [w EXCEPT !.factions[fid].research_progress =
                       [t \in (DOMAIN @) \ completed |-> @[t]]]
    ELSE LET tech_id == Head(order)
             faction == w.factions[fid]
         IN IF tech_id \notin DOMAIN faction.research_progress
               \/ AlreadyKnown(faction, tech_id)
               \/ tech_id \notin DOMAIN technologies
            THEN ResearchLoop(w, cfg, truce, fid, Tail(order), completed)
            ELSE LET progress == faction.research_progress[tech_id] + research_speed(w, fid)
                     w1 == [w EXCEPT !.factions[fid].research_progress[tech_id] = progress]
                 IN IF progress >= technologies[tech_id]
                    THEN ResearchLoop(
                           _check_tech_victory_on_research(
                              add_event([w1 EXCEPT !.factions[fid].technologies = Append(@, tech_id)],
                                        "research_completed", fid, tech_id),
                              cfg, truce, fid),
                           cfg, truce, fid, Tail(order), completed \cup {tech_id})
                    ELSE ResearchLoop(w1, cfg, truce, fid, Tail(order), completed)

RECURSIVE ResearchFactions(_, _, _, _)
\* for faction in self.game_state.factions.values()
ResearchFactions(w, cfg, truce, order) ==
    IF order = <<>> THEN w
    ELSE ResearchFactions(ResearchLoop(w, cfg, truce, Head(order), TechOrder, {}),
                          cfg, truce, Tail(order))

\* TurnEngine._process_research
_process_research(w, cfg, truce) ==
    _check_tech_victory_global(
        ResearchFactions(w, cfg, truce, KeysInOrder(FactionOrder, w.factions)), cfg, truce)

-----------------------------------------------------------------------------
(* Capture engine.  The clock is "truce" while truce_until is set and in   *)
(* the future, "open" after the truce and before game_start_time + 600 s,  *)
(* "late" from then on.                                                    *)

\* getattr(game_state, 'truce_until', 0) and time.time() < game_state.truce_until
TruceActive(clk) == clk = "truce"

\* rules["desperate_capture_threshold"]
desperate_capture_threshold == 10

\* the fleets of one faction positioned at one planet, in dict order
FleetsAt(w, faction_id, planet_id) ==
    SelectSeq(KeysInOrder(FleetOrder, w.fleets),
              LAMBDA f : w.fleets[f].owner = faction_id /\ w.fleets[f].position = planet_id)

\* TurnEngine._count_faction_ships_on_planet
_count_faction_ships_on_planet(w, faction_id, planet_id) ==
    SumOver(FleetsAt(w, faction_id, planet_id),
            [f \in DOMAIN w.fleets |-> ShipCount(w.fleets[f])], 0)

\* TurnEngine._can_use_energy_shield
_can_use_energy_shield(w, clk, defender_id) ==
    LET defender == w.factions[defender_id]
        total == Max(1, Cardinality(DOMAIN w.planets))
        own == Len(defender.planets)
    IN /\ InList("tech_shields", defender.technologies)
       /\ clk = "late"
       /\ (own <= 2 \/ own * 10 >= 9 * total)

\* TurnEngine._calc_capture_effective_power.  Every factor is an exact
\* fraction; atk_power = atk_num / atk_den and def_power = def_num / def_den.
\* beachhead_mult is in tenths (12 or 10).
_calc_capture_effective_power(w, attacker_id, defender_id, planet_id, beachhead_mult) ==
    LET attacker == w.factions[attacker_id]
        defender == w.factions[defender_id]
        planet == w.planets[planet_id]
        atk_fleets == FleetsAt(w, attacker_id, planet_id)
        atk_raw == SumOver(atk_fleets, [f \in DOMAIN w.fleets |-> get_strength(w.fleets[f])], 0)
        prof_samples == Len(atk_fleets)
        prof_sum == SumOver(atk_fleets, [f \in DOMAIN w.fleets |-> w.fleets[f].proficiency], 0)
        \* prof_mult = 1 + max(-0.1, min(0.1, avg_prof / 100)) = prof_num / prof_den
        prof_den == IF prof_samples > 0 THEN 1000 * prof_samples ELSE 1
        prof_num == IF prof_samples > 0
                    THEN 1000 * prof_samples
                         + Max(-100 * prof_samples, Min(100 * prof_samples, prof_sum))
                    ELSE 1
        tech_mult_atk == 100 + (IF InList("tech_laser", attacker.technologies) THEN 10 ELSE 0)
                             + (IF InList("tech_ftl", attacker.technologies) THEN 5 ELSE 0)
        adj_own == Len(SelectSeq(get_connected_planets(planet_id),
                                 LAMBDA n : InList(n, attacker.planets)))
        adj_mult == 100 + Min(12, adj_own * 3)
        def_raw == SumOver(FleetsAt(w, defender_id, planet_id),
                           [f \in DOMAIN w.fleets |-> get_strength(w.fleets[f])], 0)
        def_mult == 100 + (IF InList("defense_station", planet.buildings) THEN 20 ELSE 0)
                        + (IF InList("tech_laser", defender.technologies) THEN 10 ELSE 0)
                        + (IF InList("tech_ftl", defender.technologies) THEN 5 ELSE 0)
        pts == DictGet(DictGet(w.siege, planet_id, EmptyDict), attacker_id, 0)
        \* siege_mult = max(0.4, 1 / (1 + 0.1 * pts)) = siege_num / siege_den
        siege_num == IF 10 * 10 >= 4 * (10 + pts) THEN 10 ELSE 4
        siege_den == IF 10 * 10 >= 4 * (10 + pts) THEN 10 + pts ELSE 10
    IN [atk_raw |-> atk_raw, def_raw |-> def_raw,
        atk_num |-> atk_raw * prof_num * tech_mult_atk * adj_mult,
        atk_den |-> prof_den * 100 * 100,
        def_num |-> def_raw * def_mult * siege_num * beachhead_mult,
        def_den |-> 100 * siege_den * 10,
        siege_points |-> pts, beachhead_mult |-> beachhead_mult]

\* RollOutcomes that lets every roll go either way
RollOutcomes_Any(power) == {TRUE, FALSE}

\* whether random.random() < prob can come out true / false, for
\* prob = a / (a + d) with a = atk_power ^ 1.1 and d = def_power ^ 1.1
\* (prob stays 0.0 when a + d = 0): random() lies in [0, 1)
RollOutcomes(power) ==
    IF power.atk_num <= 0 THEN {FALSE}
    ELSE IF power.def_num <= 0 THEN {TRUE}
    ELSE {TRUE, FALSE}

\* planet.capture_protection_until_turn and turn < capture_protection_until_turn
BeachheadMult(w, planet_id) ==
    IF w.planets[planet_id].capture_protection_until_turn /= 0
       /\ w.turn < w.planets[planet_id].capture_protection_until_turn
    THEN 12 ELSE 10

\* the desperate capture of _attempt_planet_capture (lines 614-626)
DesperateCapture(w, attacker_id, defender_id, planet_id) ==
    add_event(
        [w EXCEPT !.planets[planet_id].owner = attacker_id,
                  !.factions[attacker_id].planets =
                      IF InList(planet_id, @) THEN @ ELSE Append(@, planet_id),
                  !.factions[defender_id].planets =
                      IF InList(planet_id, @) THEN ListRemove(@, planet_id) ELSE @],
        "planet_captured", attacker_id, planet_id)

\* the populations below 1000 for which the float product population * 0.7
\* falls just below the integer 7 * population / 10, so that int() gives one less
FLOAT_SHORT == {90, 170, 180, 330, 340, 350, 360, 650, 660, 670, 680, 690, 700, 710, 720, 730}

\* int(population * 0.7) as the float arithmetic gives it (population < 1000)
IntOf07(population) ==
    (population * 7) \div 10 - (IF population \in FLOAT_SHORT THEN 1 ELSE 0)

\* CapturedPopulation without the floor of 10
CapturedPopulation_Unfloored(population) == IntOf07(population)

\* population of a planet after a successful roll: max(10, int(population * 0.7))
CapturedPopulation(population) == Max(10, IntOf07(population))

\* RollCapture that leaves the planet in the defender's list
RollCapture_KeepsList(w, attacker_id, defender_id, planet_id) ==
    add_event([w EXCEPT !.planets[planet_id].owner = attacker_id,
                        !.factions[attacker_id].planets =
                            IF InList(planet_id, @) THEN @ ELSE Append(@, planet_id),
                        !.siege = DictPop(@, planet_id)],
              "planet_conquered", attacker_id, planet_id)

\* DeclareWar that changes the defender's side only
DeclareWar_DefenderOnly(w, attacker_id, defender_id) ==
    [w EXCEPT !.factions[defender_id].diplomacy = DictSet(@, attacker_id, "war")]

\* the mutual war of a successful roll (lines 684-685)
DeclareWar(w, attacker_id, defender_id) ==
    LET w1 == [w EXCEPT !.factions[defender_id].diplomacy = DictSet(@, attacker_id, "war")]
    IN [w1 EXCEPT !.factions[attacker_id].diplomacy = DictSet(@, defender_id, "war")]

\* the success branch of the roll of _attempt_planet_capture (lines 683-714)
RollCapture(w, attacker_id, defender_id, planet_id) ==
    LET w2 == DeclareWar(w, attacker_id, defender_id)
        w3 == IF w2.planets[planet_id].owner = defender_id
                 /\ InList(planet_id, w2.factions[defender_id].planets)
              THEN [w2 EXCEPT !.factions[defender_id].planets = ListRemove(@, planet_id)]
              ELSE w2
        w4 == [w3 EXCEPT !.planets[planet_id].owner = attacker_id,
                         !.planets[planet_id].population = CapturedPopulation(@)]
        w5 == [w4 EXCEPT !.factions[attacker_id].planets =
                             IF InList(planet_id, @) THEN @ ELSE Append(@, planet_id),
                         !.planets[planet_id].capture_protection_until_turn = w.turn + 2]
    IN add_event([w5 EXCEPT !.siege = DictPop(@, planet_id)],
                 "planet_conquered", attacker_id, planet_id)

\* the failure branch of the roll (lines 715-728); the info of its event
\* carries the capture report, written "capture"
RollFailure(w, attacker_id, defender_id, planet_id) ==
    LET node == DictGet(w.siege, planet_id, EmptyDict) IN
    add_event_info([w EXCEPT !.siege = DictSet(@, planet_id,
                                          DictSet(node, attacker_id,
                                                  DictGet(node, attacker_id, 0) + 1))],
                   "defense_success", defender_id, planet_id, "capture")

\* Desperate for an attacker that may still own planets
Desperate_AnyOwner(w, attacker_id, planet_id) ==
    _count_faction_ships_on_planet(w, attacker_id, planet_id) > desperate_capture_threshold

\* len(attacker.planets) == 0 and ships_here > threshold (lines 601-604)
Desperate(w, attacker_id, planet_id) ==
    /\ Len(w.factions[attacker_id].planets) = 0
    /\ _count_faction_ships_on_planet(w, attacker_id, planet_id) > desperate_capture_threshold

\* SpendCharge for a block that costs nothing
SpendCharge_Free(w, defender_id) == w

\* defender.defense_charges -= 1 (lines 632, 636)
SpendCharge(w, defender_id) == [w EXCEPT !.factions[defender_id].defense_charges = @ - 1]

\* the layered defense of _attempt_planet_capture (lines 630-667): the
\* worlds after it, each with whether the attempt was blocked
LayeredDefense(w, clk, defender_id, planet_id) ==
    LET defender == w.factions[defender_id]
        station == InList("defense_station", w.planets[planet_id].buildings)
        tech_bonus == (IF InList("tech_laser", defender.technologies) THEN 15 ELSE 0)
                      + (IF InList("tech_ftl", defender.technologies) THEN 15 ELSE 0)
        spend == SpendCharge(w, defender_id)
    IN IF defender.strategy_mode = "defend" /\ defender.defense_charges > 0
       THEN {[w |-> spend, defended |-> TRUE]}
       ELSE IF station /\ defender.defense_charges > 0
       THEN {[w |-> spend, defended |-> TRUE]}
       ELSE \* random.random() < 0.3 with a station; random.random() < tech_bonus
            (IF station \/ tech_bonus > 0 THEN {[w |-> w, defended |-> TRUE]} ELSE {})
            \cup
            (IF _can_use_energy_shield(w, clk, defender_id)
             THEN {[w |-> add_event(w, "shield_defense", defender_id, planet_id),
                    defended |-> TRUE]}
             ELSE {[w |-> w, defended |-> FALSE]})

\* TurnEngine._attempt_planet_capture: the outcomes [w, ok] of one attempt
_attempt_planet_capture(w, clk, attacker_id, defender_id, planet_id) ==
    IF TruceActive(clk)
    THEN {[w |-> add_event(w, "truce_active", attacker_id, planet_id), ok |-> FALSE]}
    ELSE IF Desperate(w, attacker_id, planet_id)
    THEN IF _can_use_energy_shield(w, clk, defender_id)
         THEN {[w |-> add_event(w, "shield_defense", defender_id, planet_id), ok |-> FALSE]}
         ELSE {[w |-> DesperateCapture(w, attacker_id, defender_id, planet_id), ok |-> TRUE]}
    ELSE UNION {
           IF d.defended THEN {[w |-> d.w, ok |-> FALSE]}
           ELSE LET power == _calc_capture_effective_power(
                                d.w, attacker_id, defender_id, planet_id,
                                BeachheadMult(w, planet_id))
                IN {IF roll
                    THEN [w |-> RollCapture(d.w, attacker_id, defender_id, planet_id), ok |-> TRUE]
                    ELSE [w |-> RollFailure(d.w, attacker_id, defender_id, planet_id), ok |-> FALSE]
                    : roll \in RollOutcomes(power)}
           : d \in LayeredDefense(w, clk, defender_id, planet_id)}

-----------------------------------------------------------------------------
(* War plans *)

\* TurnEngine._get_attackable_planets
_get_attackable_planets(w, attacker_id, defender_id) ==
    {p \in Range(w.factions[defender_id].planets) :
        \E i \in DOMAIN get_connected_planets(p) :
            InList(get_connected_planets(p)[i], w.factions[attacker_id].planets)}

\* the score of _select_attack_target
TargetScore(w, defender_id, planet_id) ==
    w.planets[planet_id].population
    - (IF InList("defense_station", w.planets[planet_id].buildings) THEN 25 ELSE 0)
    - (IF InList(planet_id, w.factions[defender_id].defense_focus) THEN 30 ELSE 0)

\* TurnEngine._select_attack_target: the first candidate of maximal score in
\* the iteration order of a Python set of strings, which is not fixed: any
\* candidate of maximal score
_select_attack_target(w, defender_id, candidates) ==
    {p \in candidates :
        \A q \in candidates : TargetScore(w, defender_id, q) <= TargetScore(w, defender_id, p)}

\* an attempt that costs two attack charges
SpendAttack_Two(w, attacker_id) ==
    [w EXCEPT !.factions[attacker_id].attack_charges = @ - 2]

\* faction.attack_charges -= 1 after an attempt (line 534)
SpendAttack(w, attacker_id) ==
    [w EXCEPT !.factions[attacker_id].attack_charges = @ - 1]

RECURSIVE WarLoop(_, _, _, _, _)
\* the while loop of _resolve_war_plans for one attacker
WarLoop(w, clk, attacker_id, defender_id, attackable) ==
    IF w.factions[attacker_id].attack_charges <= 0 \/ attackable = {} THEN {w}
    ELSE UNION {
           UNION {
             LET w1 == SpendAttack(r.w, attacker_id) IN
             IF r.ok
             THEN WarLoop(w1, clk, attacker_id, defender_id,
                          _get_attackable_planets(w1, attacker_id, defender_id))
             ELSE WarLoop(add_event(w1, "defense_success", defender_id, planet_id),
                          clk, attacker_id, defender_id, attackable)
             : r \in _attempt_planet_capture(w, clk, attacker_id, defender_id, planet_id)}
           : planet_id \in _select_attack_target(w, defender_id, attackable)}

RECURSIVE WarFactions(_, _, _)
\* the loop over factions of _resolve_war_plans
WarFactions(w, clk, order) ==
    IF order = <<>> THEN {w}
    ELSE LET fid == Head(order)
             faction == w.factions[fid]
             skip == WarFactions(w, clk, Tail(order))
         IN IF faction.strategy_mode /= "attack" \/ faction.war_target = NONE THEN skip
            ELSE IF faction.attack_charges <= 0 THEN skip
            ELSE IF faction.war_target \notin DOMAIN w.factions THEN skip
            ELSE IF _get_attackable_planets(w, fid, faction.war_target) = {} THEN skip
            ELSE Bind(WarLoop(w, clk, fid, faction.war_target,
                              _get_attackable_planets(w, fid, faction.war_target)),
                      LAMBDA x : WarFactions(x, clk, Tail(order)))

\* TurnEngine._resolve_war_plans
_resolve_war_plans(w, clk) ==
    IF TruceActive(clk) THEN {w}
    ELSE WarFactions(w, clk, KeysInOrder(FactionOrder, w.factions))

-----------------------------------------------------------------------------
(* Fleet movement *)

\* travel_progress 1.0, in the model's unit (1/60: every 1/distance with
\* distance <= 6 is a whole number of units)
TRAVEL_ONE == 60

\* the distances d <= 6 for which d additions of the float 1.0 / d to 0.0
\* stay below 1.0: six additions of 1.0 / 6 give 0.9999999999999999
FLOAT_SHORT_TRAVEL == {6}

\* proficiency 100.0, in tenths
PROFICIENCY_CAP == 1000

\* position of an id in an ordered id list (0 when absent)
IndexOf(order, id) == IF InList(id, order) THEN CHOOSE i \in DOMAIN order : order[i] = id ELSE 0

\* tuple(sorted([a, b])) for planet ids
SortedPair(a, b) == IF IndexOf(PlanetOrder, a) <= IndexOf(PlanetOrder, b) THEN <<a, b>> ELSE <<b, a>>

\* TurnEngine._get_garrison_cap
_get_garrison_cap(w, planet_id) ==
    IF planet_id \notin DOMAIN w.planets THEN 5
    ELSE 5 + 2 * CountBuildings(w.planets[planet_id], "shipyard")

\* all fleets positioned at a planet, in dict order
AllFleetsAt(w, planet_id) ==
    SelectSeq(KeysInOrder(FleetOrder, w.fleets), LAMBDA f : w.fleets[f].position = planet_id)

\* the garrison check after an arrival (lines 889-914)
GarrisonCheck(w, fleet_id) ==
    LET pid == w.fleets[fleet_id].position
        overflow == AllFleetsAt(w, pid)
        count_here == Len(overflow)
        owner == w.fleets[fleet_id].owner
        cap0 == _get_garrison_cap(w, pid)
        cap == IF owner \in DOMAIN w.factions /\ Len(w.factions[owner].planets) = 0
               THEN Max(cap0, count_here) ELSE cap0
        kicked == overflow[1]
        neighbors == get_connected_planets(pid)
    IN IF count_here > cap /\ overflow /= <<>>
       THEN LET w1 == add_event(w, "garrison_overflow", w.fleets[kicked].owner, kicked) IN
            IF neighbors /= <<>>
            THEN [w1 EXCEPT !.fleets[kicked].position = neighbors[1]]
            ELSE w1
       ELSE w

\* the arrival of a fleet (lines 872-887)
Arrive(w, fleet_id) ==
    LET fleet == w.fleets[fleet_id] IN
    GarrisonCheck(
        add_event([w EXCEPT !.fleets[fleet_id].position = fleet.destination,
                            !.fleets[fleet_id].destination = NONE,
                            !.fleets[fleet_id].travel_progress = 0,
                            !.fleets[fleet_id].proficiency = Min(PROFICIENCY_CAP, @ + 5)],
                  "fleet_arrived", fleet.owner, fleet_id),
        fleet_id)

\* the body of the loop over fleets of _process_fleet_movement
MoveFleet(w, fleet_id) ==
    LET fleet == w.fleets[fleet_id]
        distance == get_distance(fleet.position, fleet.destination)
        crossing == SortedPair(fleet.position, fleet.destination)
        interceptors == SelectSeq(KeysInOrder(FleetOrder, w.fleets),
                                  LAMBDA o : w.fleets[o].owner /= fleet.owner
                                             /\ w.fleets[o].patrol_edge = crossing)
        total_strength == SumOver(interceptors,
                                  [f \in DOMAIN w.fleets |-> get_strength(w.fleets[f])], 0)
        intercepted == add_event([w EXCEPT !.fleets[fleet_id].destination = NONE,
                                           !.fleets[fleet_id].travel_progress = 0],
                                 "fleet_intercepted", fleet.owner, fleet_id)
        progress == fleet.travel_progress + TRAVEL_ONE \div distance
        advanced == [w EXCEPT !.fleets[fleet_id].travel_progress = progress]
        \* fleet.travel_progress >= 1.0 on the float sum (a move order and an
        \* interception reset the sum, so it is a sum of equal terms)
        reached == progress > TRAVEL_ONE
                   \/ (progress = TRAVEL_ONE /\ distance \notin FLOAT_SHORT_TRAVEL)
        passed == IF reached THEN Arrive(advanced, fleet_id) ELSE advanced
    IN IF fleet.destination = NONE THEN {w}
       ELSE IF NodeNotFound(fleet.position, fleet.destination)
            THEN {Raise(w, "NodeNotFound")}
       ELSE IF distance <= 0 THEN {w}
       ELSE \* random.random() < min(1.0, total_strength * 0.02)
            (IF interceptors /= <<>> /\ total_strength > 0 THEN {intercepted} ELSE {})
            \cup (IF interceptors = <<>> \/ total_strength < 50 THEN {passed} ELSE {})

RECURSIVE MoveFleets(_, _)
\* TurnEngine._process_fleet_movement from the fleets of order on; an
\* exception ends the loop
MoveFleets(w, order) ==
    IF order = <<>> \/ w.exc /= NONE THEN {w}
    ELSE Bind(MoveFleet(w, Head(order)), LAMBDA x : MoveFleets(x, Tail(order)))

\* TurnEngine._process_fleet_movement
_process_fleet_movement(w) == MoveFleets(w, KeysInOrder(FleetOrder, w.fleets))

-----------------------------------------------------------------------------
(* Combat, diplomacy, random events *)

RECURSIVE FirstSeen(_, _)
\* the keys of planet_fleets in insertion order: the fleets' positions in
\* order of first appearance
FirstSeen(positions, acc) ==
    IF positions = <<>> THEN acc
    ELSE FirstSeen(Tail(positions),
                   IF InList(Head(positions), acc) THEN acc ELSE Append(acc, Head(positions)))

RECURSIVE PairsFrom(_)
\* for i, fleet1 in enumerate(fleets): for fleet2 in fleets[i+1:]
PairsFrom(s) ==
    IF Len(s) < 2 THEN <<>>
    ELSE [k \in 1..(Len(s) - 1) |-> <<s[1], s[k + 1]>>] \o PairsFrom(Tail(s))

RECURSIVE CombatPairs(_, _)
\* every pair _process_combat looks at, in order, each with its planet
CombatPairs(w, positions) ==
    IF positions = <<>> THEN <<>>
    ELSE LET here == PairsFrom(AllFleetsAt(w, Head(positions))) IN
         [k \in DOMAIN here |-> <<here[k][1], here[k][2], Head(positions)>>]
         \o CombatPairs(w, Tail(positions))

\* strength * (1.0 + max(-0.1, min(0.1, proficiency / 100.0))), times 1000
ModifiedStrength(fleet) ==
    get_strength(fleet) * (1000 + Max(-100, Min(100, fleet.proficiency)))

\* the cases <<count, own strength, own proficiency, other strength, other
\* proficiency>> in which count * damage_ratio * 0.5 is an integer n and the
\* float product falls just below it, so that int() gives n - 1; for fleets
\* of at most 12 scouts and 3 corvettes with proficiency up to 10.0
FLOAT_SHORT_LOSS ==
    {<<9, 15, 30, 12, 30>>, <<10, 16, 25, 4, 25>>, <<10, 16, 30, 4, 30>>,
     <<10, 16, 35, 4, 35>>, <<10, 16, 60, 4, 60>>, <<10, 16, 70, 4, 70>>,
     <<10, 16, 75, 4, 75>>, <<11, 14, 5, 8, 5>>, <<11, 14, 40, 8, 40>>,
     <<11, 14, 55, 8, 55>>, <<11, 14, 90, 8, 90>>}

\* int(count * damage_ratio * 0.5) for a ship type of fleet own, with
\* damage_ratio = strength of other / total, as the float arithmetic gives it
CombatLosses(count, own, other) ==
    (count * ModifiedStrength(other))
        \div (2 * (ModifiedStrength(own) + ModifiedStrength(other)))
    - (IF <<count, get_strength(own), own.proficiency,
            get_strength(other), other.proficiency>> \in FLOAT_SHORT_LOSS
       THEN 1 ELSE 0)

\* the ships of fleet own after its losses against fleet other
ShipsAfter(own, other) ==
    [t \in DOMAIN own.ships |-> Max(0, own.ships[t] - CombatLosses(own.ships[t], own, other))]

\* TurnEngine._resolve_combat
_resolve_combat(w, fleet1, fleet2, planet_id) ==
    LET strength1 == ModifiedStrength(w.fleets[fleet1])
        strength2 == ModifiedStrength(w.fleets[fleet2])
        total == strength1 + strength2
        combat_winner == IF strength1 > strength2 THEN w.fleets[fleet1].owner
                         ELSE w.fleets[fleet2].owner
    IN IF total = 0 THEN w
       ELSE add_event_info(
              [w EXCEPT !.fleets[fleet1].ships = ShipsAfter(w.fleets[fleet1], w.fleets[fleet2]),
                        !.fleets[fleet2].ships = ShipsAfter(w.fleets[fleet2], w.fleets[fleet1]),
                        !.fleets[fleet1].proficiency = Min(PROFICIENCY_CAP, @ + 15),
                        !.fleets[fleet2].proficiency = Min(PROFICIENCY_CAP, @ + 10)],
              "combat", NONE, planet_id,
              [fleet1 |-> fleet1, fleet2 |-> fleet2, winner |-> combat_winner])

RECURSIVE CombatLoop(_, _)
\* the nested loops of _process_combat over the pairs
CombatLoop(w, pairs) ==
    IF pairs = <<>> \/ w.exc /= NONE THEN w
    ELSE LET fleet1 == Head(pairs)[1]
             fleet2 == Head(pairs)[2]
             owner1 == w.fleets[fleet1].owner
         IN IF owner1 \notin DOMAIN w.factions THEN Raise(w, "KeyError")
            ELSE IF DictGet(w.factions[owner1].diplomacy, w.fleets[fleet2].owner, "neutral")
                        \in {"hostile", "war"}
                 THEN CombatLoop(_resolve_combat(w, fleet1, fleet2, Head(pairs)[3]), Tail(pairs))
                 ELSE CombatLoop(w, Tail(pairs))

\* _process_combat without the truce gate
_process_combat_NoTruce(w, clk) ==
    CombatLoop(w, CombatPairs(w,
        FirstSeen([i \in DOMAIN KeysInOrder(FleetOrder, w.fleets) |->
                      w.fleets[KeysInOrder(FleetOrder, w.fleets)[i]].position], <<>>)))

\* TurnEngine._process_combat
_process_combat(w, clk) ==
    IF TruceActive(clk) THEN w
    ELSE CombatLoop(w, CombatPairs(w,
            FirstSeen([i \in DOMAIN KeysInOrder(FleetOrder, w.fleets) |->
                          w.fleets[KeysInOrder(FleetOrder, w.fleets)[i]].position], <<>>)))

\* TurnEngine._process_diplomacy: reputation regenerates by 1 up to 100
_process_diplomacy(w) ==
    [w EXCEPT !.factions = [f \in DOMAIN w.factions |->
        IF w.factions[f].reputation < 100
        THEN [w.factions[f] EXCEPT !.reputation = Min(100, @ + 1)]
        ELSE w.factions[f]]]

\* TurnEngine._process_events: with probability 0.1 a random_event for a
\* random faction
_process_events(w) ==
    {w} \cup {add_event(w, "random_event", f, NONE) : f \in DOMAIN w.factions}

-----------------------------------------------------------------------------
(* Victory check and the turn pipeline *)

\* MaxScoreKey that takes the last maximum in dict order
MaxScoreKey_Last(scores) ==
    LET order == KeysInOrder(FactionOrder, scores)
        best == CHOOSE i \in DOMAIN order :
                   /\ \A j \in DOMAIN order : scores[order[j]] <= scores[order[i]]
                   /\ \A j \in (i + 1)..Len(order) : scores[order[j]] < scores[order[i]]
    IN order[best]

\* max(scores.items(), key=lambda kv: kv[1])[0]: the first maximum in dict order
MaxScoreKey(scores) ==
    LET order == KeysInOrder(FactionOrder, scores)
        best == CHOOSE i \in DOMAIN order :
                   /\ \A j \in DOMAIN order : scores[order[j]] <= scores[order[i]]
                   /\ \A j \in 1..(i - 1) : scores[order[j]] < scores[order[i]]
    IN order[best]

\* TurnEngine._check_victory_conditions
_check_victory_conditions(w, clk, maxturns) ==
    LET owners == {w.planets[p].owner : p \in {q \in DOMAIN w.planets : w.planets[q].owner /= NONE}}
        scores == _calc_all_scores(w)
    IN IF w.game_over THEN w
       ELSE IF TruceActive(clk) THEN w
       ELSE IF Cardinality(owners) = 1
            THEN [w EXCEPT !.game_over = TRUE, !.final_scores = scores]
       ELSE IF w.turn >= maxturns
            THEN IF DOMAIN scores /= {}
                 THEN [w EXCEPT !.final_scores = scores, !.winner = MaxScoreKey(scores),
                                !.end_reason = "turn_limit", !.game_over = TRUE]
                 ELSE [w EXCEPT !.final_scores = scores]
       ELSE w

\* the power snapshot of process_turn (lines 89-95)
PowerSnapshot(w) == [w EXCEPT !.power_history = Append(@, _calc_all_scores(w))]

\* DecayEntry for a turn that ends without the decay
DecayEntry_None(mp) == mp

\* one planet's entry of the siege table after the decay loop
DecayEntry(mp) == [a \in DOMAIN mp |-> Max(0, mp[a] - 1)]

\* SiegeDecay that keeps the entries that reach 0
SiegeDecay_KeepsZero(w) ==
    [w EXCEPT !.siege = [p \in DOMAIN w.siege |-> DecayEntry(w.siege[p])]]

\* the siege decay of process_turn (lines 103-118)
SiegeDecay(w) ==
    LET zeroed == {p \in DOMAIN w.siege : \A a \in DOMAIN w.siege[p] : DecayEntry(w.siege[p])[a] = 0}
    IN [w EXCEPT !.siege = [p \in DOMAIN w.siege \ zeroed |->
            IF DecayEntry(w.siege[p]) /= w.siege[p]
            THEN LET d == DecayEntry(w.siege[p]) IN
                 [a \in {b \in DOMAIN d : d[b] > 0} |-> d[a]]
            ELSE w.siege[p]]]

\* GameOverEvent in a game that has postgame turns as well
GameOverEvent_Postgame(w, postgame) ==
    IF w.game_over
    THEN add_event_info(w, "game_over", w.winner, NONE, w.final_scores)
    ELSE w

\* the closing game_over event of process_turn (lines 121-130)
GameOverEvent(w, postgame) ==
    IF w.game_over /\ ~postgame
    THEN add_event_info(w, "game_over", w.winner, NONE, w.final_scores)
    ELSE w

\* the steps of process_turn after the random events
TurnTail(w, clk, postgame, maxturns) ==
    LET checked == IF ~postgame THEN _check_victory_conditions(w, clk, maxturns) ELSE w
    IN GameOverEvent(SiegeDecay(add_event(PowerSnapshot(checked), "turn_end", NONE, NONE)),
                     postgame)

\* stages 2 to 4 of process_turn, which draw no random number
TurnEconomy(w, clk, cfg) ==
    _process_research(
        _refresh_military_capacity(_process_population_growth(_process_resource_production(w))),
        cfg, TruceActive(clk))

\* TurnIgnored that counts the ignored turn
TurnIgnored_Counts(w) == add_event([w EXCEPT !.turn = @ + 1], "turn_ignored", NONE, NONE)

\* the early return of process_turn (lines 42-48)
TurnIgnored(w) == add_event(w, "turn_ignored", NONE, NONE)

\* a stage runs only while no exception is in flight
Then(S, Stage(_)) == UNION {IF x.exc = NONE THEN Stage(x) ELSE {x} : x \in S}

\* TurnEngine.process_turn: every world the call can leave behind
process_turn(w, commands, clk, postgame, cfg, maxturns) ==
    IF w.game_over /\ ~postgame
    THEN {TurnIgnored(w)}
    ELSE LET started == [w EXCEPT !.turn = @ + 1, !.colonize_counts = EmptyDict]
             s1 == _execute_commands(started, commands)
             s4 == Then(s1, LAMBDA x : {TurnEconomy(x, clk, cfg)})
             s5 == Then(s4, LAMBDA x : _resolve_war_plans(x, clk))
             s6 == Then(s5, LAMBDA x : _process_fleet_movement(x))
             s8 == Then(s6, LAMBDA x : {_process_diplomacy(_process_combat(x, clk))})
             s9 == Then(s8, LAMBDA x : _process_events(x))
         IN Then(s9, LAMBDA x : {TurnTail(x, clk, postgame, maxturns)})

-----------------------------------------------------------------------------
(* The handlers as actions *)

\* the largest turn number a run reaches
TurnBound == 2

\* the longest command list of one turn
MaxCmds == 2

\* the largest number of siege points an assault may add to
MaxSiege == 3

\* the largest number of ships a fleet may be reinforced to
MaxShips == 11

\* Fleet.patrol_edge = None
NO_EDGE == <<>>

\* every command list of at most n commands drawn from menu
CommandLists(menu, n) == UNION {[1..k -> menu] : k \in 0..n}

\* the fields of GameState after a handler that left world o
Install(o) ==
    /\ turn' = o.turn
    /\ planets' = o.planets
    /\ factions' = o.factions
    /\ fleets' = o.fleets
    /\ siege' = o.siege
    /\ events' = o.events
    /\ game_over' = o.game_over
    /\ winner' = o.winner
    /\ end_reason' = o.end_reason
    /\ final_scores' = o.final_scores
    /\ colonize_counts' = o.colonize_counts
    /\ econ_history' = o.econ_history
    /\ power_history' = o.power_history
    /\ exc' = o.exc

\* what a handler reports: its name, its outcome and its arguments
Report(handler, result, commands, faction, planet) ==
    [handler |-> handler, result |-> result, commands |-> commands,
     faction |-> faction, planet |-> planet]

\* TurnEngine.process_turn(commands)
ProcessTurn(commands, limit) ==
    /\ (game_over /\ ~allow_postgame) \/ turn < limit
    /\ \E o \in process_turn(World, commands, clock, allow_postgame, victory_config, max_turns) :
          /\ Install(o)
          /\ last' = Report("process_turn",
                            IF game_over /\ ~allow_postgame THEN "ignored"
                            ELSE IF o.exc /= NONE THEN "raised" ELSE "done",
                            commands, NONE, NONE)
    /\ UNCHANGED <<connections, allow_postgame, max_turns, victory_config, clock>>

\* server._get_assault_always_factions
_get_assault_always_factions ==
    LET max_cnt == Max(Len(factions["player"].fleets), Len(factions["ai_0"].fleets))
    IN IF TruceActive(clock) \/ max_cnt <= 0 THEN {}
       ELSE {f \in DOMAIN factions : Len(factions[f].fleets) = max_cnt}

\* server.assault_planet(planet_id, faction_id); a refused request (404, 400)
\* changes nothing
assault_planet(pid, fid) ==
    /\ pid \in DOMAIN planets
    /\ fid \in DOMAIN factions
    /\ Len(factions[fid].planets) = 0 \/ fid \in _get_assault_always_factions
    /\ planets[pid].owner /= NONE
    /\ _count_faction_ships_on_planet(World, fid, pid) > desperate_capture_threshold
    /\ DictGet(DictGet(siege, pid, EmptyDict), fid, 0) < MaxSiege
    /\ \E r \in _attempt_planet_capture(World, clock, fid, planets[pid].owner, pid) :
          /\ Install(r.w)
          /\ last' = Report("assault_planet", IF r.ok THEN "captured" ELSE "failed",
                            <<>>, fid, pid)
    /\ UNCHANGED <<connections, allow_postgame, max_turns, victory_config, clock>>

\* server.enable_postgame(enable)
enable_postgame(enable) ==
    /\ allow_postgame /= enable
    /\ Install(add_event(World, "postgame_toggle", NONE, NONE))
    /\ allow_postgame' = enable
    /\ last' = Report("enable_postgame", "done", <<>>, NONE, NONE)
    /\ UNCHANGED <<connections, max_turns, victory_config, clock>>

\* cost_table of server.reinforce_fleet: (minerals, energy) per ship, in tenths
cost_table == [scout |-> <<10, 30>>, corvette |-> <<30, 60>>, destroyer |-> <<80, 120>>,
               cruiser |-> <<200, 300>>, battleship |-> <<500, 800>>]

\* server.reinforce_fleet(owner, fleet_id, delta), delta a dict from ship
\* types to non-zero numbers; a refused request (404, 400) changes nothing
reinforce_fleet(owner, fid, delta) ==
    LET added == [t \in DOMAIN delta |-> Max(0, delta[t])]
        removed == [t \in DOMAIN delta |-> Max(0, 0 - delta[t])]
        need_min == SumShips(ShipTypeOrder, added, [t \in DOMAIN cost_table |-> cost_table[t][1]])
        need_en == SumShips(ShipTypeOrder, added, [t \in DOMAIN cost_table |-> cost_table[t][2]])
        \* refunds are half the cost
        refund_min == SumShips(ShipTypeOrder, removed,
                               [t \in DOMAIN cost_table |-> cost_table[t][1]]) \div 2
        refund_en == SumShips(ShipTypeOrder, removed,
                              [t \in DOMAIN cost_table |-> cost_table[t][2]]) \div 2
        ships == fleets[fid].ships
        new_ships == [t \in DOMAIN ships \cup DOMAIN delta |->
                        IF t \in DOMAIN delta
                        THEN Max(0, DictGet(ships, t, 0) + delta[t])
                        ELSE ships[t]]
    IN /\ fid \in DOMAIN fleets
       /\ fleets[fid].owner = owner
       /\ owner \in DOMAIN factions
       /\ ~(need_min > 0 \/ need_en > 0)
          \/ ~(factions[owner].resources.minerals < need_min
                \/ factions[owner].resources.energy < need_en)
       /\ SumShips(ShipTypeOrder, new_ships, [t \in DOMAIN ship_power |-> 1]) <= MaxShips
       /\ Install(add_event(
              [World EXCEPT !.factions[owner].resources.minerals = @ - need_min + refund_min,
                            !.factions[owner].resources.energy = @ - need_en + refund_en,
                            !.fleets[fid].ships = new_ships],
              "fleet_reinforced", owner, fid))
       /\ last' = Report("reinforce_fleet", "done", <<>>, owner, NONE)
       /\ UNCHANGED <<connections, allow_postgame, max_turns, victory_config, clock>>

\* f"fleet_{owner}_{len(game_state.fleets)}" for n = len(fleets) >= 2
FleetId(owner, n) == FleetOrder[2 * n - 2 + IndexOf(FactionOrder, owner)]

\* the most fleets a run holds
MaxFleets == 11

\* server.create_fleet(owner, planet_id, ships); a request refused before the
\* payment (400) changes nothing, one refused at the stationing limit has
\* already paid
create_fleet(owner, planet_id, ships_req) ==
    LET need_min == SumShips(ShipTypeOrder, ships_req, [t \in DOMAIN cost_table |-> cost_table[t][1]])
        need_en == SumShips(ShipTypeOrder, ships_req, [t \in DOMAIN cost_table |-> cost_table[t][2]])
        paid == [World EXCEPT !.factions[owner].resources.minerals = @ - need_min,
                              !.factions[owner].resources.energy = @ - need_en]
        stationed == Cardinality({f \in DOMAIN fleets : fleets[f].position = planet_id})
        new_id == FleetId(owner, Cardinality(DOMAIN fleets))
        fleet == [owner |-> owner, ships |-> ships_req, position |-> planet_id,
                  destination |-> NONE, travel_progress |-> 0, patrol_edge |-> NO_EDGE,
                  proficiency |-> 0]
        created == [paid EXCEPT !.fleets = new_id :> fleet @@ @,
                                !.factions[owner].fleets = Append(@, new_id)]
    IN /\ owner \in DOMAIN factions
       /\ planet_id \in DOMAIN planets
       /\ planets[planet_id].owner = owner
       /\ ~(factions[owner].resources.minerals < need_min
             \/ factions[owner].resources.energy < need_en)
       /\ IF stationed >= 5
          THEN /\ Install(paid)
               /\ last' = Report("create_fleet", "refused", <<>>, owner, planet_id)
          ELSE /\ Install(add_event(created, "fleet_created", owner, new_id))
               /\ last' = Report("create_fleet", "done", <<>>, owner, planet_id)
       /\ UNCHANGED <<connections, allow_postgame, max_turns, victory_config, clock>>

\* server.patrol_fleet(owner, fleet_id, a, b) with a and b given; a refused
\* request (404, 403, 400) changes nothing
patrol_fleet(owner, fid, a, b) ==
    /\ fid \in DOMAIN fleets
    /\ fleets[fid].owner = owner
    /\ InList(<<a, b>>, connections) \/ InList(<<b, a>>, connections)
    /\ Install(add_event_info([World EXCEPT !.fleets[fid].patrol_edge = SortedPair(a, b)],
                              "fleet_patrol", owner, fid, <<a, b>>))
    /\ last' = Report("patrol_fleet", "patrol", <<>>, owner, NONE)
    /\ UNCHANGED <<connections, allow_postgame, max_turns, victory_config, clock>>

\* server.patrol_fleet(owner, fleet_id) without a or b: the patrol ends
end_patrol(owner, fid) ==
    /\ fid \in DOMAIN fleets
    /\ fleets[fid].owner = owner
    /\ Install(add_event([World EXCEPT !.fleets[fid].patrol_edge = NO_EDGE],
                         "fleet_patrol", owner, fid))
    /\ last' = Report("patrol_fleet", "ended", <<>>, owner, NONE)
    /\ UNCHANGED <<connections, allow_postgame, max_turns, victory_config, clock>>

\* real time passes: the truce ends, then game_start_time + 600 s is reached
Tick ==
    /\ \/ clock = "truce" /\ clock' \in {"open", "late"}
       \/ clock = "open" /\ clock' = "late"
    /\ UNCHANGED <<connections, turn, planets, factions, fleets, siege, events,
                   game_over, winner,
                   end_reason, final_scores, allow_postgame, colonize_counts,
                   econ_history, power_history, max_turns, victory_config, exc, last>>

-----------------------------------------------------------------------------
(* The state after initialize_game *)

\* Faction(...) as _initialize_factions builds it, with its start planet
NewFaction(fid, start, other) ==
    [resources |-> [energy |-> 5000, minerals |-> 5000, research |-> 1000],
     planets |-> <<start>>, fleets |-> <<FleetOrder[IndexOf(FactionOrder, fid)]>>,
     technologies |-> <<>>, research_progress |-> EmptyDict,
     diplomacy |-> [o \in {other} |-> "neutral"], reputation |-> 100,
     strategy_mode |-> "peace", war_target |-> NONE, defense_focus |-> <<>>,
     attack_charges |-> 1, defense_charges |-> 1]

\* Fleet(...) as _initialize_factions builds it
NewFleet(fid, start) ==
    [owner |-> fid, ships |-> [corvette |-> 3, scout |-> 5], position |-> start,
     destination |-> NONE, travel_progress |-> 0, patrol_edge |-> NO_EDGE, proficiency |-> 0]

\* Planet(...) of the generator, owned and populated if it is a start planet
NewPlanet(owner) ==
    [owner |-> owner, population |-> IF owner = NONE THEN 0 ELSE 100,
     buildings |-> <<>>, capture_protection_until_turn |-> 0]

\* initialize_game on the galaxy conns, with the player starting on p0 and
\* ai_0 on ai_start
InitGalaxy(conns, ai_start, clk, mt) ==
    /\ connections = conns
    /\ turn = 0
    /\ planets = [p \in UNION {{conns[i][1], conns[i][2]} : i \in DOMAIN conns} |->
                    NewPlanet(IF p = "p0" THEN "player" ELSE IF p = ai_start THEN "ai_0" ELSE NONE)]
    /\ factions = [f \in Range(FactionOrder) |->
                    IF f = "player" THEN NewFaction(f, "p0", "ai_0")
                    ELSE NewFaction(f, ai_start, "player")]
    /\ fleets = [f \in {"fleet_player_0", "fleet_ai_0_0"} |->
                    IF f = "fleet_player_0" THEN NewFleet("player", "p0")
                    ELSE NewFleet("ai_0", ai_start)]
    /\ siege = EmptyDict
    /\ events = <<[event_type |-> "game_start", faction |-> NONE, ref |-> NONE,
                   info |-> NONE, turn |-> 0]>>
    /\ game_over = FALSE
    /\ winner = NONE
    /\ end_reason = NONE
    /\ final_scores = EmptyDict
    /\ allow_postgame = FALSE
    /\ colonize_counts = EmptyDict
    /\ econ_history = EmptyDict
    /\ power_history = <<>>
    /\ max_turns = mt
    /\ victory_config = [tech_victory_enabled |-> FALSE, tech_required_ids |-> {},
                         tech_score_threshold |-> 0]
    /\ clock = clk
    /\ exc = NONE
    /\ last = Report("initialize_game", "done", <<>>, NONE, NONE)

\* initialize_game on the path galaxy
InitGame(ai_start, clk, mt) == InitGalaxy(PathGalaxy, ai_start, clk, mt)

-----------------------------------------------------------------------------
(* Specification Spec: a game from initialize_game on, the player on p0 and *)
(* ai_0 on p2, with commands that name entities that exist and entities    *)
(* that do not                                                              *)

\* max_turns as given to initialize_game
MaxTurns == 2

Menu ==
    {Command("player", "move", "fleet_player_0", GHOST_PLANET),
     Command("player", "move", "fleet_player_0", "p1"),
     Command("player", "diplomacy", GHOST_FACTION, "allied"),
     Command("player", "build", "p0", "mining_station"),
     Command("player", "colonize", "p1", "p0"),
     Command("ai_0", "strategy", "attack", "player"),
     Command(GHOST_FACTION, "research", "tech_laser", NONE)}

Init == \E clk \in {"truce", "open"} : InitGame("p2", clk, MaxTurns)

Turn == \E commands \in CommandLists(Menu, MaxCmds) : ProcessTurn(commands, TurnBound)

Postgame == \E enable \in BOOLEAN : enable_postgame(enable)

Next == Turn \/ Postgame \/ Tick

Spec == Init /\ [][Next]_vars

-----------------------------------------------------------------------------
(* Specification SpecWar: a game from initialize_game on with the two      *)
(* start planets adjacent (player on p0, ai_0 on p1), fleets that move,    *)
(* are reinforced and fight, a colonization, a war plan and assaults       *)

WarMenu ==
    {Command("player", "move", "fleet_player_0", "p1"),
     Command("ai_0", "move", "fleet_ai_0_0", "p0"),
     Command("player", "strategy", "attack", "ai_0"),
     Command("ai_0", "colonize", "p2", "p1"),
     Command("player", "diplomacy", "ai_0", "hostile")}

InitWar == InitGame("p1", "truce", MaxTurns)

WarTurn == \E commands \in CommandLists(WarMenu, MaxCmds) : ProcessTurn(commands, TurnBound)

\* an assault on a planet of the other faction
Assault ==
    \E pid \in DOMAIN planets, fid \in DOMAIN factions :
        planets[pid].owner /= fid /\ assault_planet(pid, fid)

Reinforce == reinforce_fleet("player", "fleet_player_0", [scout |-> 3])

NextWar == WarTurn \/ Assault \/ Reinforce \/ Tick

SpecWar == InitWar /\ [][NextWar]_vars

-----------------------------------------------------------------------------
(* Specification SpecSiege: the same game without truce and with the        *)
(* default turn limit, three turns of at most two commands, one of them a   *)
(* colonization                                                             *)

\* max_turns by default
DEFAULT_MAX_TURNS == 200

\* the number of turns of the siege game
SiegeTurns == 3

\* the longest command list of a turn of the siege game
SiegeCmds == 2

SiegeMenu ==
    {Command("player", "move", "fleet_player_0", "p1"),
     Command("ai_0", "move", "fleet_ai_0_0", "p0"),
     Command("ai_0", "strategy", "attack", "player"),
     Command("ai_0", "colonize", "p2", "p1")}

InitSiege == InitGame("p1", "open", DEFAULT_MAX_TURNS)

SiegeTurn ==
    \E commands \in CommandLists(SiegeMenu, SiegeCmds) : ProcessTurn(commands, SiegeTurns)

NextSiege == SiegeTurn \/ Assault \/ Reinforce

SpecSiege == InitSiege /\ [][NextSiege]_vars

-----------------------------------------------------------------------------
(* Specification SpecDiplomacy: one turn of a long list of diplomacy        *)
(* commands of the player towards ai_0                                      *)

\* the longest command list of the diplomacy turn
DiplomacyCmds == 8

\* the number of turns of the diplomacy game
DiplomacyTurns == 1

DiplomacyMenu ==
    {Command("player", "diplomacy", "ai_0", "allied"),
     Command("player", "diplomacy", "ai_0", "hostile")}

InitDiplomacy == InitGame("p2", "truce", MaxTurns)

DiplomacyTurn ==
    \E commands \in CommandLists(DiplomacyMenu, DiplomacyCmds) :
        ProcessTurn(commands, DiplomacyTurns)

NextDiplomacy == DiplomacyTurn \/ Tick

SpecDiplomacy == InitDiplomacy /\ [][NextDiplomacy]_vars

-----------------------------------------------------------------------------
(* Specification SpecGarrison: the star galaxy, the player on p0 and ai_0  *)
(* on p1, the first neighbour of p0; both sides create fleets at home and  *)
(* the player's first fleet leaves for p4 and comes back                   *)

\* the largest turn number a run of SpecGarrison reaches
GarrisonTurns == 2

GarrisonMenu ==
    {Command("player", "move", "fleet_player_0", "p4"),
     Command("player", "move", "fleet_player_0", "p0")}

InitGarrison == InitGalaxy(StarGalaxy, "p1", "open", DEFAULT_MAX_TURNS)

GarrisonTurn == \E commands \in CommandLists(GarrisonMenu, 1) : ProcessTurn(commands, GarrisonTurns)

\* fleets are created between the first turn and the last; a run holds at
\* most MaxFleets fleets and does not repeat a request that was just refused
Create ==
    /\ 0 < turn /\ turn < GarrisonTurns
    /\ Cardinality(DOMAIN fleets) < MaxFleets
    /\ last.result /= "refused"
    /\ \E owner \in Range(FactionOrder) : create_fleet(owner, factions[owner].planets[1], [scout |-> 1])

NextGarrison == GarrisonTurn \/ Create

SpecGarrison == InitGarrison /\ [][NextGarrison]_vars

-----------------------------------------------------------------------------
(* Specification SpecColonize: the path galaxy, the player on p0 and ai_0  *)
(* on p2, both next to the free planet p1; colonize commands with a valid  *)
(* origin, with an origin that is not adjacent, with an origin the faction *)
(* does not own, and (from the second turn on) with an owned target        *)

\* the largest turn number a run of SpecColonize reaches
ColonizeTurns == 2

\* the most commands of one turn of SpecColonize
ColonizeCmds == 3

ColonizeMenu ==
    {Command("player", "build", "p0", "defense_station"),
     Command("player", "colonize", "p1", "p0"),
     Command("ai_0", "colonize", "p1", "p2"),
     Command("player", "colonize", "p3", "p0"),
     Command("player", "colonize", "p3", "p2")}

InitColonize == InitGame("p2", "truce", DEFAULT_MAX_TURNS)

ColonizeTurn ==
    \E commands \in CommandLists(ColonizeMenu, ColonizeCmds) : ProcessTurn(commands, ColonizeTurns)

NextColonize == ColonizeTurn

SpecColonize == InitColonize /\ [][NextColonize]_vars

-----------------------------------------------------------------------------
(* Specification SpecQuota: the star galaxy, the player on p0 with five    *)
(* free neighbours and ai_0 on p2; each turn the player submits some of    *)
(* five colonize commands, one per neighbour                               *)

\* the largest turn number a run of SpecQuota reaches
QuotaTurns == 2

QuotaPlan ==
    <<Command("player", "colonize", "p1", "p0"),
      Command("player", "colonize", "p4", "p0"),
      Command("player", "colonize", "p5", "p0"),
      Command("player", "colonize", "p6", "p0"),
      Command("player", "colonize", "p7", "p0")>>

RECURSIVE Chosen(_, _, _)
\* the commands of plan from position i on whose positions are in S
Chosen(plan, S, i) ==
    IF i > Len(plan) THEN <<>>
    ELSE (IF i \in S THEN <<plan[i]>> ELSE <<>>) \o Chosen(plan, S, i + 1)

InitQuota == InitGalaxy(StarGalaxy, "p2", "truce", DEFAULT_MAX_TURNS)

QuotaTurn ==
    \E S \in SUBSET DOMAIN QuotaPlan : ProcessTurn(Chosen(QuotaPlan, S, 1), QuotaTurns)

NextQuota == QuotaTurn

SpecQuota == InitQuota /\ [][NextQuota]_vars

-----------------------------------------------------------------------------
(* Specification SpecBuild: the path galaxy, the player on p0 and ai_0 on  *)
(* p2; build commands for the own planet, for the planet of the other      *)
(* faction and for the free planet p1                                      *)

\* the largest turn number a run of SpecBuild reaches
BuildTurns == 2

\* the most commands of one turn of SpecBuild
BuildCmds == 3

BuildMenu ==
    {Command("player", "build", "p0", "mining_station"),
     Command("player", "build", "p0", "shipyard"),
     Command("ai_0", "build", "p0", "energy_plant"),
     Command("player", "build", "p1", "research_lab")}

InitBuild == InitGame("p2", "truce", DEFAULT_MAX_TURNS)

BuildTurn == \E commands \in CommandLists(BuildMenu, BuildCmds) : ProcessTurn(commands, BuildTurns)

NextBuild == BuildTurn

SpecBuild == InitBuild /\ [][NextBuild]_vars

-----------------------------------------------------------------------------
(* Specification SpecPopulation: the path galaxy without truce, the player *)
(* on p0 and ai_0 on p2; the player builds and colonizes p1, ai_0 moves    *)
(* its fleet to p1 and attacks the player                                  *)

\* the largest turn number a run of SpecPopulation reaches
PopulationTurns == 2

\* the most commands of one turn of SpecPopulation
PopulationCmds == 2

PopulationMenu ==
    {Command("player", "build", "p0", "mining_station"),
     Command("player", "colonize", "p1", "p0"),
     Command("ai_0", "move", "fleet_ai_0_0", "p1"),
     Command("ai_0", "strategy", "attack", "player")}

InitPopulation == InitGame("p2", "open", DEFAULT_MAX_TURNS)

PopulationTurn ==
    \E commands \in CommandLists(PopulationMenu, PopulationCmds) :
        ProcessTurn(commands, PopulationTurns)

NextPopulation == PopulationTurn

SpecPopulation == InitPopulation /\ [][NextPopulation]_vars

-----------------------------------------------------------------------------
(* Specification SpecCombat: the path galaxy without truce, the player on  *)
(* p0 and ai_0 on p2; each side creates a second fleet at home, the player *)
(* declares ai_0 hostile and the new fleets meet on p1                     *)

\* the largest turn number a run of SpecCombat reaches
CombatTurns == 2

\* the most fleets a run of SpecCombat holds
CombatFleets == 4

CombatPlan ==
    <<Command("player", "diplomacy", "ai_0", "hostile"),
      Command("player", "move", "fleet_player_2", "p1"),
      Command("ai_0", "move", "fleet_ai_0_3", "p1"),
      Command("ai_0", "move", "fleet_ai_0_0", "p1")>>

InitCombat == InitGame("p2", "open", DEFAULT_MAX_TURNS)

CombatTurn ==
    \E S \in SUBSET DOMAIN CombatPlan : ProcessTurn(Chosen(CombatPlan, S, 1), CombatTurns)

CombatCreate ==
    /\ Cardinality(DOMAIN fleets) < CombatFleets
    /\ \/ create_fleet("player", "p0", [scout |-> 11, corvette |-> 1])
       \/ create_fleet("ai_0", "p2", [scout |-> 8])

NextCombat == CombatTurn \/ CombatCreate

SpecCombat == InitCombat /\ [][NextCombat]_vars

(* Specification SpecPatrol: the path galaxy with the player on p0 and      *)
(* ai_0 on p2; the fleet of ai_0 patrols a line at p1 or stops, the         *)
(* player declares ai_0 hostile or not and moves its fleet to p1           *)

\* the largest turn number a run of SpecPatrol reaches
PatrolTurns == 2

PatrolPlan ==
    <<Command("player", "diplomacy", "ai_0", "hostile"),
      Command("player", "move", "fleet_player_0", "p1")>>

InitPatrol == InitGame("p2", "open", DEFAULT_MAX_TURNS)

PatrolTurn ==
    \E S \in SUBSET DOMAIN PatrolPlan : ProcessTurn(Chosen(PatrolPlan, S, 1), PatrolTurns)

Patrol ==
    /\ turn < PatrolTurns
    /\ last.handler /= "patrol_fleet"
    /\ \/ patrol_fleet("ai_0", "fleet_ai_0_0", "p1", "p0")
       \/ patrol_fleet("ai_0", "fleet_ai_0_0", "p1", "p2")
       \/ end_patrol("ai_0", "fleet_ai_0_0")

NextPatrol == PatrolTurn \/ Patrol

SpecPatrol == InitPatrol /\ [][NextPatrol]_vars

(* Specification SpecResearch: the path galaxy with the player on p0 and   *)
(* ai_0 on p2 under the truce; the player orders the research of           *)
(* tech_laser, in any turn and any number of times                         *)

\* the largest turn number a run of SpecResearch reaches
ResearchTurns == 11

\* the longest command list of SpecResearch
ResearchCmds == 2

ResearchMenu == {Command("player", "research", "tech_laser", NONE)}

InitResearch == InitGame("p2", "truce", DEFAULT_MAX_TURNS)

ResearchTurn ==
    \E commands \in CommandLists(ResearchMenu, ResearchCmds) : ProcessTurn(commands, ResearchTurns)

NextResearch == ResearchTurn \/ Tick

SpecResearch == InitResearch /\ [][NextResearch]_vars

(* Specification SpecRelations: the path galaxy without truce, the player  *)
(* on p0 and ai_0 on p2; the factions change their relations, the player   *)
(* colonizes p1, ai_0 moves its fleet there and attacks the player         *)

\* the largest turn number a run of SpecRelations reaches
RelationsTurns == 2

RelationsPlan ==
    <<Command("player", "diplomacy", "ai_0", "allied"),
      Command("ai_0", "diplomacy", "player", "hostile"),
      Command("player", "diplomacy", "ai_0", "friendly"),
      Command("player", "colonize", "p1", "p0"),
      Command("ai_0", "move", "fleet_ai_0_0", "p1"),
      Command("ai_0", "strategy", "attack", "player")>>

InitRelations == InitGame("p2", "open", DEFAULT_MAX_TURNS)

RelationsTurn ==
    \E S \in SUBSET DOMAIN RelationsPlan :
        ProcessTurn(Chosen(RelationsPlan, S, 1), RelationsTurns)

NextRelations == RelationsTurn

SpecRelations == InitRelations /\ [][NextRelations]_vars

(* Specification SpecStrategy: the path galaxy under the truce, the player *)
(* on p0 and ai_0 on p2; the player sends strategy commands with and       *)
(* without a target that can be attacked                                   *)

\* the largest turn number a run of SpecStrategy reaches
StrategyTurns == 2

\* the longest command list of SpecStrategy
StrategyCmds == 2

StrategyMenu ==
    {Command("player", "strategy", "attack", "ai_0"),
     Command("player", "strategy", "attack", "player"),
     Command("player", "strategy", "attack", GHOST_FACTION),
     Command("player", "strategy", "attack", NONE),
     Command("player", "strategy", "defend", NONE),
     Command("player", "strategy", "peace", NONE)}

InitStrategy == InitGame("p2", "truce", DEFAULT_MAX_TURNS)

StrategyTurn ==
    \E commands \in CommandLists(StrategyMenu, StrategyCmds) :
        ProcessTurn(commands, StrategyTurns)

NextStrategy == StrategyTurn \/ Tick

SpecStrategy == InitStrategy /\ [][NextStrategy]_vars

(* Specification SpecDesperate: the player on p0 and ai_0 on the adjacent  *)
(* p1, no truce.  In turn 1 the player sends its fleet to p1 and may order *)
(* the research of tech_shields, which completes in turn 35; from then on  *)
(* the player may attack ai_0, the fleets are reinforced to eleven ships,  *)
(* both factions assault and game_start_time + 600 s passes                *)

\* the turn number from which on SpecDesperate goes to war
WarFrom == 35

\* the largest turn number a run of SpecDesperate reaches
DesperateTurns == 36

DesperateLists ==
    IF turn = 0
    THEN {<<Command("player", "move", "fleet_player_0", "p1")>>,
          <<Command("player", "research", "tech_shields", NONE),
            Command("player", "move", "fleet_player_0", "p1")>>}
    ELSE IF turn < WarFrom THEN {<<>>}
    ELSE {<<>>, <<Command("player", "strategy", "attack", "ai_0")>>}

InitDesperate == InitGame("p1", "open", DEFAULT_MAX_TURNS)

DesperateTurn == \E commands \in DesperateLists : ProcessTurn(commands, DesperateTurns)

DesperateReinforce ==
    \E fid \in DOMAIN fleets, k \in 1..6 :
        /\ turn >= WarFrom
        /\ ShipCount(fleets[fid]) + k = MaxShips
        /\ reinforce_fleet(fleets[fid].owner, fid, [scout |-> k])

DesperateAssault == turn >= WarFrom /\ Assault

DesperateTick == turn >= WarFrom /\ Tick

NextDesperate == DesperateTurn \/ DesperateReinforce \/ DesperateAssault \/ DesperateTick

SpecDesperate == InitDesperate /\ [][NextDesperate]_vars

(* Specification SpecBlock: the player on p0 and ai_0 on the adjacent p1,  *)
(* no truce; ai_0 goes to defend mode or builds a defense station on p1,   *)
(* the player moves its fleet to p1, reinforces it and assaults            *)

\* the largest turn number a run of SpecBlock reaches
BlockTurns == 2

\* the longest command list of SpecBlock
BlockCmds == 2

BlockMenu ==
    {Command("ai_0", "strategy", "defend", NONE),
     Command("ai_0", "build", "p1", "defense_station"),
     Command("player", "move", "fleet_player_0", "p1")}

InitBlock == InitGame("p1", "open", DEFAULT_MAX_TURNS)

BlockTurn == \E commands \in CommandLists(BlockMenu, BlockCmds) : ProcessTurn(commands, BlockTurns)

NextBlock == BlockTurn \/ Assault \/ Reinforce

SpecBlock == InitBlock /\ [][NextBlock]_vars

(* Specification SpecPower: the player on p0 and ai_0 on the adjacent p1,  *)
(* no truce; ai_0 attacks the player with its fleet at home or moves the   *)
(* fleet away to p2, the player moves its fleet to p1, attacks ai_0,       *)
(* reinforces and assaults                                                 *)

\* the largest turn number a run of SpecPower reaches
PowerTurns == 2

\* the longest command list of SpecPower
PowerCmds == 2

PowerMenu ==
    {Command("player", "move", "fleet_player_0", "p1"),
     Command("ai_0", "move", "fleet_ai_0_0", "p2"),
     Command("ai_0", "strategy", "attack", "player"),
     Command("player", "strategy", "attack", "ai_0")}

InitPower == InitGame("p1", "open", DEFAULT_MAX_TURNS)

PowerTurn == \E commands \in CommandLists(PowerMenu, PowerCmds) : ProcessTurn(commands, PowerTurns)

NextPower == PowerTurn \/ Assault \/ Reinforce

SpecPower == InitPower /\ [][NextPower]_vars

(* Specification SpecTravel: the long galaxy under truce, the player on p0 *)
(* and ai_0 on p6; the player sends its fleet to p6 (six hops) or to p3    *)
(* (three hops), ai_0 sends its fleet to the adjacent p5                   *)

\* the largest turn number a run of SpecTravel reaches
TravelTurns == 8

\* the longest command list of SpecTravel
TravelCmds == 1

TravelMenu ==
    {Command("player", "move", "fleet_player_0", "p6"),
     Command("player", "move", "fleet_player_0", "p3"),
     Command("ai_0", "move", "fleet_ai_0_0", "p5")}

InitTravel == InitGalaxy(LongGalaxy, "p6", "truce", DEFAULT_MAX_TURNS)

TravelTurn == \E commands \in CommandLists(TravelMenu, TravelCmds) : ProcessTurn(commands, TravelTurns)

NextTravel == TravelTurn

SpecTravel == InitTravel /\ [][NextTravel]_vars

(* Specification SpecPostgame: the player on p0 and ai_0 on the adjacent   *)
(* p1, no truce, a turn limit of one turn; the game ends with turn 1, the  *)
(* postgame switch is turned on and off, later turns move the player's     *)
(* fleet to p1 and attack ai_0, and the factions reinforce and assault     *)

\* max_turns as given to initialize_game in SpecPostgame
PostgameMaxTurns == 1

\* the largest turn number a run of SpecPostgame reaches
PostgameTurns == 3

\* the longest command list of SpecPostgame
PostgameCmds == 1

PostgameMenu ==
    {Command("player", "move", "fleet_player_0", "p1"),
     Command("player", "strategy", "attack", "ai_0")}

InitPostgame == InitGame("p1", "open", PostgameMaxTurns)

PostgameTurn ==
    \E commands \in CommandLists(PostgameMenu, PostgameCmds) : ProcessTurn(commands, PostgameTurns)

NextPostgame == PostgameTurn \/ Postgame \/ Assault \/ Reinforce

SpecPostgame == InitPostgame /\ [][NextPostgame]_vars

(* Specification SpecStall: the path galaxy under truce, the player on p0  *)
(* and ai_0 on the adjacent p1; the player orders its first fleet to p0,   *)
(* where it stands, or to a planet that does not exist, creates fleets at  *)
(* p0 after the first turn, and ai_0 sends its fleet to p0                 *)

\* the largest turn number a run of SpecStall reaches
StallTurns == 3

\* the most fleets a run of SpecStall holds
StallFleets == 6

StallMenu ==
    {Command("player", "move", "fleet_player_0", "p0"),
     Command("player", "move", "fleet_player_0", GHOST_PLANET),
     Command("ai_0", "move", "fleet_ai_0_0", "p0")}

InitStall == InitGame("p1", "truce", DEFAULT_MAX_TURNS)

StallTurn == \E commands \in CommandLists(StallMenu, 1) : ProcessTurn(commands, StallTurns)

StallCreate ==
    /\ turn = 1
    /\ Cardinality(DOMAIN fleets) < StallFleets
    /\ create_fleet("player", "p0", [scout |-> 1])

NextStall == StallTurn \/ StallCreate

SpecStall == InitStall /\ [][NextStall]_vars

-----------------------------------------------------------------------------
(* Properties *)

\* a step of process_turn that is not ignored
TurnStep == turn' = turn + 1

\* a step of the handler h
HandlerStep(h) == clock' = clock /\ vars' /= vars /\ last'.handler = h

\* the log holds an event of type t
HasEvent(t) == \E i \in DOMAIN events : events[i].event_type = t

\* the command raises inside its handler, in the current world
Raises(c) ==
    /\ c.command_type /= "colonize"
    /\ \/ c.faction_id \notin DOMAIN factions
       \/ c.command_type = "build" /\ (c.b \notin BuildingType \/ c.a \notin DOMAIN planets)
       \/ /\ c.command_type = "move"
          /\ c.a \in DOMAIN fleets
          /\ fleets[c.a].owner = c.faction_id
          /\ c.b \notin DOMAIN planets
       \/ c.command_type = "diplomacy"
          /\ (c.b \notin DiplomacyStatus \/ c.a \notin DOMAIN factions)

\* the command is not a colonize command and names a missing entity or fails
\* its ownership check, in the current world
Missing(c) ==
    /\ c.command_type /= "colonize"
    /\ \/ c.faction_id \notin DOMAIN factions
       \/ c.command_type = "build"
          /\ (c.a \notin DOMAIN planets \/ planets[c.a].owner /= c.faction_id)
       \/ c.command_type = "move"
          /\ (c.a \notin DOMAIN fleets \/ fleets[c.a].owner /= c.faction_id
              \/ c.b \notin DOMAIN planets)
       \/ c.command_type = "diplomacy" /\ c.a \notin DOMAIN factions
       \/ c.command_type = "strategy" /\ c.a = "attack" /\ c.b \notin DOMAIN factions

\* what the command stage and the stages before fleet movement decide of the
\* factions
Kept(fs) ==
    [f \in DOMAIN fs |-> [resources |-> fs[f].resources, planets |-> fs[f].planets,
                          technologies |-> fs[f].technologies,
                          research_progress |-> fs[f].research_progress,
                          strategy_mode |-> fs[f].strategy_mode,
                          war_target |-> fs[f].war_target]]

\* the events of the commands that ran
CommandEvents(evs) ==
    SelectSeq(evs, LAMBDA e : e.event_type \in
        {"construction", "research_started", "strategy", "fleet_movement", "diplomacy",
         "colonization", "colonization_failed", "colonization_contested"})

\* the factions of the command_failed events, in order
FailedFactions(evs) ==
    LET failed == SelectSeq(evs, LAMBDA e : e.event_type = "command_failed")
    IN [i \in DOMAIN failed |-> failed[i].faction]

\* C1: every turn that process_turn starts on a game that is not over runs
\* all its stages to the end and appends turn_end, whatever the commands name
C1_TurnRunsToEnd ==
    (last.handler = "process_turn" /\ last.result /= "ignored")
        => (exc = NONE /\ HasEvent("turn_end"))

\* C2: planet.owner = F exactly when the planet is in F.planets, every owner
\* is a faction, and no planet is twice in one list or in two lists
C2_OwnerAgreesWithLists ==
    /\ \A p \in DOMAIN planets : planets[p].owner \in DOMAIN factions \cup {NONE}
    /\ \A p \in DOMAIN planets, f \in DOMAIN factions :
          planets[p].owner = f <=> InList(p, factions[f].planets)
    /\ \A f \in DOMAIN factions :
          /\ Range(factions[f].planets) \subseteq DOMAIN planets
          /\ \A i, j \in DOMAIN factions[f].planets :
                i /= j => factions[f].planets[i] /= factions[f].planets[j]
    /\ \A f, g \in DOMAIN factions :
          f /= g => Range(factions[f].planets) \cap Range(factions[g].planets) = {}

\* a planet has been colonized, another has changed hands by a war plan and
\* a third by an assault
C2_Witness ==
    /\ last.handler = "assault_planet"
    /\ last.result = "captured"
    /\ planets[last.planet].owner = last.faction
    /\ \E p \in DOMAIN planets : p /= last.planet /\ planets[p].capture_protection_until_turn > 0
    /\ planets["p2"].owner = "ai_0"

\* C3: a turn whose commands all name a missing entity or fail their
\* ownership check leaves the fleets, factions and planets as a turn without
\* commands does
C3_MissingEntityIsNoOp ==
    [][(/\ TurnStep
        /\ last'.commands /= <<>>
        /\ \A i \in DOMAIN last'.commands : Missing(last'.commands[i]))
       => \E o \in process_turn(World, <<>>, clock, allow_postgame, victory_config, max_turns) :
             /\ o.fleets = fleets'
             /\ o.factions = factions'
             /\ o.planets = planets']_vars

\* C4: each command that raises leaves a command_failed event with its
\* faction id, in order, and the other commands and the colonization batches
\* take effect as they do in a turn given the list without the raising commands
C4_FailureIsRecordedAndPassed ==
    [][TurnStep =>
        LET failed == SelectSeq(last'.commands, Raises)
            good == SelectSeq(last'.commands, LAMBDA c : ~Raises(c))
        IN /\ FailedFactions(events') = [i \in DOMAIN failed |-> failed[i].faction_id]
           /\ \E o \in process_turn(World, good, clock, allow_postgame,
                                    victory_config, max_turns) :
                 /\ o.planets = planets'
                 /\ Kept(o.factions) = Kept(factions')
                 /\ CommandEvents(o.events) = CommandEvents(events')]_vars

\* the first command of a turn has failed and the second, a colonize
\* command, has colonized its planet
C4_Witness ==
    /\ last.handler = "process_turn"
    /\ Len(last.commands) = 2
    /\ last.commands[2].command_type = "colonize"
    /\ planets[last.commands[2].a].owner = last.commands[2].faction_id
    /\ \E i, j \in DOMAIN events :
          /\ i < j
          /\ events[i].event_type = "command_failed"
          /\ events[i].faction = last.commands[1].faction_id
          /\ events[j].event_type = "colonization"

\* C5: the reputation of every faction stays within 0..100
C5_ReputationInRange ==
    \A f \in DOMAIN factions : factions[f].reputation >= 0 /\ factions[f].reputation <= 100

\* every owned planet belongs to the faction F
Dominates(F, pl) ==
    /\ \E p \in DOMAIN pl : pl[p].owner = F
    /\ \A p \in DOMAIN pl : pl[p].owner \in {F, NONE}

\* C6: a turn whose victory check runs (no truce, no postgame) while one
\* faction F owns every owned planet ends the game with winner F and with the
\* power of every faction in final_scores
C6_DominationNamesWinner ==
    [][\A F \in DOMAIN factions :
          (/\ TurnStep
           /\ exc' = NONE
           /\ ~allow_postgame
           /\ ~TruceActive(clock)
           /\ Dominates(F, planets'))
          => (/\ game_over'
              /\ winner' = F
              /\ final_scores' = [f \in DOMAIN factions' |->
                    calculate_faction_power([planets |-> planets', fleets |-> fleets'],
                                            factions'[f])])]_vars

\* the event log of an ignored turn
OnlyTurnIgnored(evs) == Len(evs) = 1 /\ evs[1].event_type = "turn_ignored"

\* C7: process_turn on a game that is over, postgame off, appends exactly one
\* turn_ignored event and changes nothing else
C7_IgnoredTurnChangesNothing ==
    [][(game_over /\ ~allow_postgame /\ HandlerStep("process_turn"))
       => (/\ OnlyTurnIgnored(events')
           /\ UNCHANGED <<turn, planets, factions, fleets, siege, econ_history,
                          power_history, game_over, winner, end_reason, final_scores,
                          colonize_counts, allow_postgame>>)]_vars

\* a turn has been ignored on a game that is over
C7_Witness ==
    /\ game_over
    /\ ~allow_postgame
    /\ last.handler = "process_turn"
    /\ last.result = "ignored"
    /\ OnlyTurnIgnored(events)
    /\ last.commands /= <<>>

\* siege points of attacker a against planet p in siege table s
Points(s, p, a) == DictGet(DictGet(s, p, EmptyDict), a, 0)

\* C8: while the truce is active no step takes a planet from its owner,
\* changes a ship count other than by reinforcement, adds siege points or
\* ends the game
C8_TruceSuppressesWar ==
    [][(TruceActive(clock) /\ TruceActive(clock'))
       => (/\ \A p \in DOMAIN planets :
                 planets'[p].owner /= planets[p].owner => planets[p].owner = NONE
           /\ \A f \in DOMAIN fleets :
                 fleets'[f].ships /= fleets[f].ships => HandlerStep("reinforce_fleet")
           /\ \A p \in DOMAIN planets, a \in DOMAIN factions :
                 Points(siege', p, a) <= Points(siege, p, a)
           /\ game_over' = game_over)]_vars

\* during the truce a faction plans an attack on a planet its fleet stands
\* on, beside a hostile fleet, the turn limit has been reached and a planet
\* has been colonized
C8_Witness ==
    /\ TruceActive(clock)
    /\ last.handler = "process_turn"
    /\ last.result = "done"
    /\ turn >= max_turns
    /\ factions["player"].strategy_mode = "attack"
    /\ factions["player"].diplomacy["ai_0"] = "hostile"
    /\ fleets["fleet_player_0"].position = fleets["fleet_ai_0_0"].position
    /\ planets[fleets["fleet_player_0"].position].owner = "ai_0"
    /\ planets["p2"].owner = "ai_0"
    /\ ~game_over

\* no capture attempt on planet p has succeeded or failed at the roll
Quiet(p, evs) ==
    \A i \in DOMAIN evs :
        evs[i].ref = p => evs[i].event_type \notin {"defense_success", "planet_conquered"}

\* every stored siege count is positive
StoredPositive(s) == \A p \in DOMAIN s : DOMAIN s[p] /= {} /\ \A a \in DOMAIN s[p] : s[p][a] > 0

\* siege points are never negative
SiegeNonNegative == \A p \in DOMAIN siege : \A a \in DOMAIN siege[p] : siege[p][a] >= 0

\* the siege table changes as C9 says
SiegeStep ==
    /\ \A p \in DOMAIN planets, a \in DOMAIN factions :
          /\ Points(siege', p, a) > Points(siege, p, a) => ~Quiet(p, events')
          /\ (TurnStep /\ exc' = NONE /\ Quiet(p, events'))
                => Points(siege', p, a) = Max(0, Points(siege, p, a) - 1)
    /\ (TurnStep /\ exc' = NONE) => StoredPositive(siege')

\* C9: siege points are never negative; they grow only by a failed capture
\* attempt; a processed turn leaves each count at max(0, count - 1), stores
\* no count of 0 and no planet without a count
C9_SiegeDecaysByOne == []SiegeNonNegative /\ [][SiegeStep]_vars

\* a turn without a capture attempt has left a siege count of 1
C9_Witness ==
    /\ last.handler = "process_turn"
    /\ last.result = "done"
    /\ ~HasEvent("defense_success")
    /\ ~HasEvent("planet_conquered")
    /\ \E p \in DOMAIN siege : \E a \in DOMAIN siege[p] : siege[p][a] = 1

\* C10: right after an assault that captures a planet, by the roll or by
\* the desperate path, the siege table has no entry for that planet
C10_CaptureClearsSiege ==
    (last.handler = "assault_planet" /\ last.result = "captured")
        => last.planet \notin DOMAIN siege

\* the planets the last handler has captured, by the roll or by the
\* desperate path
CapturedNow(evs) ==
    {evs[i].ref : i \in {j \in DOMAIN evs :
                            evs[j].event_type \in {"planet_conquered", "planet_captured"}}}

\* C11: a planet captured at turn T, by the roll or by the desperate path,
\* is protected until turn T + 2: right after the capture its defense
\* multiplier is 1.2
C11_CaptureKeepsBeachhead ==
    \A p \in CapturedNow(events) :
        /\ planets[p].capture_protection_until_turn = turn + 2
        /\ BeachheadMult(World, p) = 12

\* the planets where a fleet of a faction that owns no planet stands
BypassPlanets ==
    {fleets[f].position : f \in {g \in DOMAIN fleets :
                                    fleets[g].owner \in DOMAIN factions
                                    /\ Len(factions[fleets[g].owner].planets) = 0}}

\* C12: at the end of every processed turn no planet holds more fleets than
\* its garrison cap, 5 + 2 per shipyard, except the planets where a fleet of
\* a faction owning no planet arrived; the neighbour that takes an
\* overflowing fleet stays within its cap too
C12_GarrisonWithinCap ==
    (last.handler = "process_turn" /\ last.result = "done")
    => \A p \in DOMAIN planets \ BypassPlanets :
          Len(AllFleetsAt(World, p)) <= _get_garrison_cap(World, p)


\* the world in which process_turn resolves the first colonize batch of the
\* commands: the turn started, the other commands executed
BeforeBatches(commands) ==
    RunCommands([World EXCEPT !.turn = @ + 1, !.colonize_counts = EmptyDict], commands)

\* the contenders _resolve_colonize_conflicts collects for the first batch
FirstContenders(commands) ==
    LET keys == BatchKeys(commands, <<>>) IN
    CollectContenders(BeforeBatches(commands), keys[1], BatchOf(commands, keys[1]), <<>>).contenders

\* the commands make a first batch and the turn colonized its planet
FirstBatchColonized(commands, evs) ==
    /\ BatchKeys(commands, <<>>) /= <<>>
    /\ \E i \in DOMAIN evs : /\ evs[i].event_type = "colonization"
                             /\ evs[i].ref = BatchKeys(commands, <<>>)[1]

\* the faction that colonized planet pid according to the events
ColonizerOf(evs, pid) ==
    evs[CHOOSE i \in DOMAIN evs : evs[i].event_type = "colonization" /\ evs[i].ref = pid].faction

\* C13: among the valid contenders for an unowned planet the winner of the
\* colonization has the highest power; the origin population only decides
\* between contenders of equal power
C13_StrongestColonizes ==
    [][(last'.handler = "process_turn" /\ last'.result = "done"
        /\ FirstBatchColonized(last'.commands, events'))
       => LET cs == FirstContenders(last'.commands)
              won == ColonizerOf(events', BatchKeys(last'.commands, <<>>)[1])
          IN \E k \in DOMAIN cs :
                /\ cs[k].faction = won
                /\ \A j \in DOMAIN cs :
                      \/ cs[j].power < cs[k].power
                      \/ /\ cs[j].power = cs[k].power
                         /\ cs[j].origin_population <= cs[k].origin_population]_vars

\* the player built a defense station on p0 and then won p1 against ai_0, with
\* the greater power (one station more) and the smaller origin population
\* (one inhabitant less, both start planets having started with 100)
C13_Witness ==
    /\ last.handler = "process_turn" /\ turn = 1
    /\ \E i, j, k \in DOMAIN events :
          /\ i < j /\ j < k
          /\ events[i].event_type = "construction" /\ events[i].faction = "player"
          /\ events[j].event_type = "colonization" /\ events[j].faction = "player"
          /\ events[j].ref = "p1"
          /\ events[k].event_type = "colonization_contested" /\ events[k].faction = "ai_0"
    /\ planets["p1"].owner = "player"

\* the colonize commands of a list that name the target and the faction
ColonizeCommandsFor(commands, pid, fid) ==
    {commands[i] : i \in {j \in DOMAIN commands :
                            /\ commands[j].command_type = "colonize"
                            /\ commands[j].a = pid
                            /\ commands[j].faction_id = fid}}

\* C14: a colonization gives an owner only to a planet that had none, to a
\* faction one of whose commands names an origin it owns next to the target;
\* no list of colonize commands changes the owner of an owned planet, and no
\* planet is colonized twice in a turn
C14_ColonizeOnlyFreePlanets ==
    [][(last'.handler = "process_turn" /\ last'.result = "done")
       => /\ \A p \in DOMAIN planets :
                planets[p].owner /= NONE => planets'[p].owner = planets[p].owner
          /\ \A i \in DOMAIN events' :
                events'[i].event_type = "colonization"
                => /\ planets[events'[i].ref].owner = NONE
                   /\ planets'[events'[i].ref].owner = events'[i].faction
                   /\ \E c \in ColonizeCommandsFor(last'.commands, events'[i].ref,
                                                   events'[i].faction) :
                         /\ c.b \in DOMAIN planets'
                         /\ planets'[c.b].owner = events'[i].faction
                         /\ InList(c.b, factions'[events'[i].faction].planets)
                         /\ InList(events'[i].ref, get_connected_planets(c.b))
                   /\ \A j \in DOMAIN events' :
                         (events'[j].event_type = "colonization"
                          /\ events'[j].ref = events'[i].ref) => j = i]_vars

\* the second turn carried a colonize command of ai_0 for p1 from its own
\* adjacent planet p2 and a command of the player for p3 from p0, which is
\* not adjacent; p1, colonized by the player in the first turn, is still the
\* player's and p3 is still free
C14_Witness ==
    /\ last.handler = "process_turn" /\ last.result = "done" /\ turn = 2
    /\ InList(Command("ai_0", "colonize", "p1", "p2"), last.commands)
    /\ InList(Command("player", "colonize", "p3", "p0"), last.commands)
    /\ planets["p1"].owner = "player"
    /\ planets["p3"].owner = NONE
    /\ \A i \in DOMAIN events : events[i].event_type /= "colonization"

\* the number of planets the events say the faction colonized
ColonizedBy(evs, fid) ==
    Cardinality({i \in DOMAIN evs : evs[i].event_type = "colonization" /\ evs[i].faction = fid})

\* C15: in one processed turn no faction gains more than 4 planets by
\* colonization, and the colonization counter of a faction counts the
\* colonizations of that turn only: it restarted at 0
C15_ColonizeQuota ==
    [][(last'.handler = "process_turn" /\ last'.result = "done")
       => \A f \in DOMAIN factions :
             /\ ColonizedBy(events', f) <= COLONIZE_QUOTA
             /\ Len(factions'[f].planets) - Len(factions[f].planets) <= COLONIZE_QUOTA
             /\ DictGet(colonize_counts', f, 0) = ColonizedBy(events', f)]_vars

\* the player submitted the five colonize commands in one turn: four planets
\* were colonized, the fifth command was refused and p7 stayed free
C15_Witness ==
    /\ last.handler = "process_turn" /\ last.result = "done"
    /\ last.commands = QuotaPlan
    /\ ColonizedBy(events, "player") = 4
    /\ \E i \in DOMAIN events : /\ events[i].event_type = "colonization_failed"
                                /\ events[i].faction = "player" /\ events[i].ref = "p7"
    /\ planets["p7"].owner = NONE
    /\ Len(factions["player"].planets) = 5

\* the number of construction events for a planet
ConstructionsAt(evs, pid) ==
    Cardinality({i \in DOMAIN evs : evs[i].event_type = "construction" /\ evs[i].ref = pid})

\* the build commands of a list that the owner of the planet gave for it
OwnerBuilds(commands, pid, owner) ==
    SelectSeq(commands, LAMBDA c : /\ c.command_type = "build" /\ c.a = pid
                                   /\ c.faction_id = owner)

\* C16: a build command succeeds only for a planet of the commanding faction
\* with population > 0 and fewer than 5 buildings; each success takes 1
\* population, appends the one building and emits one construction event;
\* every other build command changes nothing and emits nothing, and no
\* planet has more than 5 buildings
C16_BuildGuarded ==
    [][(last'.handler = "process_turn" /\ last'.result = "done")
       => \A p \in DOMAIN planets :
             LET ran == BeforeBatches(last'.commands)
                 asked == OwnerBuilds(last'.commands, p, planets[p].owner)
                 built == Min(Len(asked),
                              Min(Max(0, 5 - Len(planets[p].buildings)), planets[p].population))
             IN /\ ran.planets[p].buildings
                     = planets[p].buildings \o [k \in 1..built |-> asked[k].b]
                /\ planets'[p].buildings = ran.planets[p].buildings
                /\ ran.planets[p].population = planets[p].population - built
                /\ ConstructionsAt(ran.events, p) = built
                /\ ConstructionsAt(events', p) = built
                /\ Len(planets'[p].buildings) <= 5
                /\ \A i \in DOMAIN events' : events'[i].event_type /= "command_failed"]_vars

\* p0 holds five buildings after a turn whose three build commands of the
\* player found it with three: two constructions, one command without effect
C16_Witness ==
    /\ last.handler = "process_turn" /\ last.result = "done"
    /\ Len(OwnerBuilds(last.commands, "p0", "player")) = 3
    /\ Len(planets["p0"].buildings) = 5
    /\ ConstructionsAt(events, "p0") = 2

\* the events of the given type, as (faction, planet) pairs
EventPairs(evs, event_type) ==
    {<<evs[i].faction, evs[i].ref>> : i \in {j \in DOMAIN evs : evs[j].event_type = event_type}}

\* C17: no population is ever negative, whatever builds, colonizations,
\* captures and growth steps have happened; after a colonization the origin
\* planet holds at least 10, and after a capture by the roll the captured
\* planet holds at least 10
C17_PopulationFloors ==
    /\ \A p \in DOMAIN planets : planets[p].population >= 0
    /\ \A e \in EventPairs(events, "colonization") :
          \A c \in ColonizeCommandsFor(last.commands, e[2], e[1]) :
             (c.b \in DOMAIN planets /\ planets[c.b].owner = e[1]
              /\ InList(e[2], get_connected_planets(c.b)))
             => planets[c.b].population >= ORIGIN_FLOOR
    /\ \A e \in EventPairs(events, "planet_conquered") : planets[e[2]].population >= 10

\* in one turn the player colonized p1 from p0 and ai_0, whose fleet stood
\* there, took the new colony by the roll: its population, 13 after growth,
\* would be 9 after the capture without the floor and is 10
C17_Witness ==
    /\ last.handler = "process_turn" /\ last.result = "done"
    /\ <<"player", "p1">> \in EventPairs(events, "colonization")
    /\ <<"ai_0", "p1">> \in EventPairs(events, "planet_conquered")
    /\ planets["p1"].population = 10
    /\ planets["p1"].owner = "ai_0"

\* the owners of the owned planets
Owners == {planets[p].owner : p \in {q \in DOMAIN planets : planets[q].owner /= NONE}}

\* C18: a victory check at turn >= max_turns, without domination and outside
\* the truce, ends the game; the winner has the maximal power score, the
\* first such faction in iteration order if several share it, and
\* final_scores holds the score of every faction
C18_TurnLimitWinner ==
    [][(/\ last'.handler = "process_turn" /\ last'.result = "done"
        /\ ~game_over /\ ~allow_postgame
        /\ turn' = turn + 1 /\ turn' >= max_turns
        /\ ~TruceActive(clock)
        /\ Cardinality(Owners') /= 1)
       => /\ game_over'
          /\ DOMAIN final_scores' = DOMAIN factions'
          /\ \A f \in DOMAIN factions' :
                final_scores'[f] = calculate_faction_power(World, factions[f])'
          /\ winner' \in DOMAIN factions'
          /\ \A f \in DOMAIN factions' : final_scores'[f] <= final_scores'[winner']
          /\ \A f \in DOMAIN factions' :
                IndexOf(FactionOrder, f) < IndexOf(FactionOrder, winner')
                => final_scores'[f] < final_scores'[winner']]_vars

\* the game ended at the turn limit with both factions at the same score, and
\* the player, first in iteration order, is the winner
C18_Witness ==
    /\ last.handler = "process_turn" /\ last.result = "done"
    /\ game_over /\ end_reason = "turn_limit" /\ turn = max_turns
    /\ final_scores["player"] = final_scores["ai_0"]
    /\ winner = "player"
    /\ \E i \in DOMAIN events : events[i].event_type = "game_over"

\* the combat events of a list of events
CombatEvents(evs) == {evs[i] : i \in {j \in DOMAIN evs : evs[j].event_type = "combat"}}

\* the adjusted strength with which a fleet entered the one combat of the
\* turn that prof_gain credited to it: its ships before the turn, its
\* proficiency after the turn less the credit
StrengthInCombat(before, after, prof_gain) ==
    ModifiedStrength([before EXCEPT !.proficiency = after.proficiency - prof_gain])

\* C19: the combat event names as winner the owner of the fleet of strictly
\* higher adjusted strength, and the owner of fleet1, the first fleet of the
\* pair, when the two adjusted strengths are equal
C19_CombatWinner ==
    [][(last'.handler = "process_turn" /\ last'.result = "done" /\ turn' = turn + 1)
       => \A e \in CombatEvents(events') :
             LET strength1 == StrengthInCombat(fleets[e.info.fleet1], fleets'[e.info.fleet1], 15)
                 strength2 == StrengthInCombat(fleets[e.info.fleet2], fleets'[e.info.fleet2], 10)
             IN e.info.winner = IF strength1 >= strength2
                                THEN fleets[e.info.fleet1].owner
                                ELSE fleets[e.info.fleet2].owner]_vars

\* floor(count * other / total * 0.5) in exact arithmetic
ExactLosses(count, own, other) == (count * other) \div (2 * (own + other))

\* the fleets that the combat events name once
FoughtOnce(evs, f) ==
    Cardinality({e \in CombatEvents(evs) : f \in {e.info.fleet1, e.info.fleet2}}) = 1

\* C20: in a combat each fleet loses, of every ship type, floor(own count *
\* adjusted strength of the opponent / total adjusted strength * 0.5) ships:
\* no count becomes negative, no fleet loses more than half of a ship type,
\* and the fleet of strictly higher strength is the recorded winner
C20_CombatLosses ==
    [][(last'.handler = "process_turn" /\ last'.result = "done" /\ turn' = turn + 1)
       => \A e \in CombatEvents(events') :
             LET f1 == e.info.fleet1
                 f2 == e.info.fleet2
                 strength1 == StrengthInCombat(fleets[f1], fleets'[f1], 15)
                 strength2 == StrengthInCombat(fleets[f2], fleets'[f2], 10)
             IN (FoughtOnce(events', f1) /\ FoughtOnce(events', f2))
                => /\ \A t \in DOMAIN fleets[f1].ships :
                         /\ fleets'[f1].ships[t]
                               = fleets[f1].ships[t]
                                 - ExactLosses(fleets[f1].ships[t], strength1, strength2)
                         /\ fleets'[f1].ships[t] >= 0
                         /\ 2 * (fleets[f1].ships[t] - fleets'[f1].ships[t]) <= fleets[f1].ships[t]
                   /\ \A t \in DOMAIN fleets[f2].ships :
                         /\ fleets'[f2].ships[t]
                               = fleets[f2].ships[t]
                                 - ExactLosses(fleets[f2].ships[t], strength2, strength1)
                         /\ fleets'[f2].ships[t] >= 0
                         /\ 2 * (fleets[f2].ships[t] - fleets'[f2].ships[t]) <= fleets[f2].ships[t]
                   /\ strength1 > strength2 => e.info.winner = fleets[f1].owner
                   /\ strength2 > strength1 => e.info.winner = fleets[f2].owner]_vars


\* the factions whose patrolling fleets stand on the line a fleet of
\* faction fid crosses, and that are hostile to or at war with fid
HostilePatrollers(fid) ==
    {fleets[o].owner : o \in {f \in DOMAIN fleets :
        /\ fleets[f].patrol_edge /= NO_EDGE
        /\ fleets[f].owner /= fid
        /\ DictGet(factions[fleets[f].owner].diplomacy, fid, "neutral") \in {"hostile", "war"}}}

\* C21: a turn intercepts a moving fleet only if a fleet of a faction that
\* is hostile to or at war with the mover's faction patrols a line; a
\* patrolling fleet of a neutral, friendly or allied faction never cancels
\* the move
C21_InterceptOnlyHostile ==
    (last.handler = "process_turn" /\ last.result = "done")
        => \A i \in DOMAIN events :
              events[i].event_type = "fleet_intercepted"
                  => HostilePatrollers(events[i].faction) /= {}


\* the research_started events of evs, as pairs <<faction, technology>>
ResearchStarted(evs) ==
    {<<evs[i].faction, evs[i].ref>> : i \in {j \in DOMAIN evs : evs[j].event_type = "research_started"}}

\* C22: a turn emits no research_started event for a technology its faction
\* had completed or had in progress before the turn and leaves the progress
\* of that technology to the research stage alone, and after the turn no
\* technology of a faction is both completed and in progress
C22_ResearchOnce ==
    [][(turn' = turn + 1 /\ last'.result = "done")
         => \A f \in DOMAIN factions :
              /\ \A t \in DOMAIN technologies :
                    (InList(t, factions[f].technologies)
                       \/ t \in DOMAIN factions[f].research_progress)
                        => <<f, t>> \notin ResearchStarted(events')
              /\ \A t \in DOMAIN factions'[f].research_progress :
                    ~InList(t, factions'[f].technologies)]_vars


\* the status of faction a towards faction b
StatusOf(a, b) == DictGet(factions[a].diplomacy, b, "neutral")

\* C23: the diplomacy status of a faction towards another faction equals
\* the status of that faction towards it, after any diplomacy commands and
\* captures
C23_DiplomacySymmetric ==
    \A a \in DOMAIN factions, b \in DOMAIN factions :
        a /= b => StatusOf(a, b) = StatusOf(b, a)

\* a turn of SpecRelations conquered a planet after the relations had been
\* changed: both sides are at war
C23_Witness ==
    /\ HasEvent("planet_conquered")
    /\ \E i \in DOMAIN last.commands : last.commands[i].command_type = "diplomacy"
    /\ StatusOf("player", "ai_0") = "war"
    /\ StatusOf("ai_0", "player") = "war"


RECURSIVE RelationEvents(_, _, _)
\* the betrayal and diplomacy events, as pairs <<type, faction>>, that the
\* commands of cmds from position i on are to emit when the two factions
\* stand at status before them
RelationEvents(cmds, i, status) ==
    IF i > Len(cmds) THEN <<>>
    ELSE IF cmds[i].command_type /= "diplomacy" THEN RelationEvents(cmds, i + 1, status)
    ELSE (IF status = "allied" /\ cmds[i].b \in {"hostile", "war"}
          THEN <<(<<"betrayal", cmds[i].faction_id>>)>> ELSE <<>>)
         \o <<(<<"diplomacy", cmds[i].faction_id>>)>>
         \o RelationEvents(cmds, i + 1, cmds[i].b)

\* the betrayal and diplomacy events of evs, as pairs <<type, faction>>
RelationEventsOf(evs) ==
    LET kept == SelectSeq(evs, LAMBDA e : e.event_type \in {"betrayal", "diplomacy"})
    IN [i \in DOMAIN kept |-> <<kept[i].event_type, kept[i].faction>>]

\* the betrayals of faction f among the pairs of evs
BetrayalsBy(evs, f) == Cardinality({i \in DOMAIN evs : evs[i] = <<"betrayal", f>>})

\* the reputation r after the diplomacy stage of the turn
Regenerated(r) == IF r < 100 THEN Min(100, r + 1) ELSE r

\* C24: in a turn, a change_status command that takes an allied relation to
\* hostile or war emits a betrayal event with reputation_loss 30 just before
\* its diplomacy event and costs its faction 30 points of reputation; every
\* other change emits its diplomacy event alone, and a faction's reputation
\* changes by its own betrayals only (and the point the turn gives back)
C24_BetrayalPenalty ==
    [][(turn' = turn + 1 /\ last'.result = "done")
         => LET expected == RelationEvents(last'.commands, 1, StatusOf("player", "ai_0")) IN
            /\ RelationEventsOf(events') = expected
            /\ \A i \in DOMAIN events' :
                  events'[i].event_type = "betrayal" => events'[i].info.reputation_loss = 30
            /\ \A f \in DOMAIN factions :
                  factions'[f].reputation =
                      Regenerated(factions[f].reputation - 30 * BetrayalsBy(expected, f))]_vars

\* ai_0 turned an alliance into hostility in the last turn: its reputation
\* is 100 - 30 + 1, the player's is untouched
C24_Witness ==
    /\ last.handler = "process_turn"
    /\ RelationEventsOf(events) = <<(<<"betrayal", "ai_0">>), (<<"diplomacy", "ai_0">>)>>
    /\ factions["ai_0"].reputation = 71
    /\ factions["player"].reputation = 100


RECURSIVE PlanAfter(_, _, _, _)
\* the pair <<mode, war target>> of faction f after the strategy commands of
\* cmds from position i on, when it is plan before them: an attack on
\* another existing faction sets both, an attack on anything else changes
\* nothing, defend and peace set the mode and clear the target
PlanAfter(cmds, i, f, plan) ==
    IF i > Len(cmds) THEN plan
    ELSE IF cmds[i].command_type /= "strategy" \/ cmds[i].faction_id /= f
    THEN PlanAfter(cmds, i + 1, f, plan)
    ELSE IF cmds[i].a = "attack"
    THEN PlanAfter(cmds, i + 1, f,
                   IF cmds[i].b \in DOMAIN factions \ {f} THEN <<"attack", cmds[i].b>> ELSE plan)
    ELSE PlanAfter(cmds, i + 1, f, <<IF cmds[i].a = "defend" THEN "defend" ELSE "peace", NONE>>)

\* C25: after a turn a faction in attack mode has a war target that is
\* another existing faction, a faction in defend or peace mode has none,
\* and mode and target are what the strategy commands of the turn make of
\* them, where an attack without a target, on an unknown faction or on the
\* faction itself changes neither
C25_StrategyTarget ==
    [][(turn' = turn + 1 /\ last'.result = "done")
         => \A f \in DOMAIN factions :
              /\ factions'[f].strategy_mode \in {"attack", "defend", "peace"}
              /\ factions'[f].strategy_mode = "attack"
                    => factions'[f].war_target \in DOMAIN factions \ {f}
              /\ factions'[f].strategy_mode /= "attack" => factions'[f].war_target = NONE
              /\ <<factions'[f].strategy_mode, factions'[f].war_target>> =
                    PlanAfter(last'.commands, 1, f,
                              <<factions[f].strategy_mode, factions[f].war_target>>)]_vars

\* the player defends after a turn whose last command was an attack on
\* itself, and attacks ai_0 after a turn whose last command was an attack on
\* an unknown faction
C25_Witness ==
    /\ last.handler = "process_turn"
    /\ Len(last.commands) = 2
    /\ \/ /\ last.commands[2] = Command("player", "strategy", "attack", "player")
          /\ factions["player"].strategy_mode = "defend"
          /\ factions["player"].war_target = NONE
       \/ /\ last.commands[2] = Command("player", "strategy", "attack", GHOST_FACTION)
          /\ factions["player"].strategy_mode = "attack"
          /\ factions["player"].war_target = "ai_0"


\* the type tags of the event log that the specification lists
EventVocabulary ==
    {"turn_end", "command_failed", "colonization", "colonization_contested",
     "colonization_failed", "construction", "fleet_movement", "fleet_arrived",
     "fleet_intercepted", "garrison_overflow", "research_started", "research_completed",
     "diplomacy", "betrayal", "strategy", "planet_conquered", "defense_success",
     "shield_defense", "combat", "random_event", "turn_ignored", "game_over"}

\* C26: every event that a processed turn or a capture attempt appends to
\* the log has a type of the listed vocabulary
C26_EventVocabulary ==
    last.handler \in {"process_turn", "assault_planet"}
        => \A i \in DOMAIN events : events[i].event_type \in EventVocabulary


\* C27: turn_end is the last thing a processed turn does: the last event a
\* processed turn appends to the log is its turn_end event
C27_TurnEndLast ==
    (last.handler = "process_turn" /\ last.result = "done")
        => /\ events /= <<>>
           /\ events[Len(events)].event_type = "turn_end"


\* the types of the events of evs, in order
EventTypes(evs) == [i \in DOMAIN evs |-> evs[i].event_type]

\* C28: an assault by a faction that owns no planet and has more than
\* desperate_capture_threshold ships at the planet takes the planet without
\* a roll and without spending a defense charge, unless the defender can
\* use its energy shield: then it fails with a shield_defense event and
\* changes nothing else; an assault by a faction that owns a planet never
\* captures by this path
C28_DesperateCapture ==
    [][(HandlerStep("assault_planet") /\ turn' = turn)
         => LET fid == last'.faction
                pid == last'.planet
                defender_id == planets[pid].owner
            IN IF Len(factions[fid].planets) = 0
                  /\ _count_faction_ships_on_planet(World, fid, pid) > desperate_capture_threshold
               THEN IF _can_use_energy_shield(World, clock, defender_id)
                    THEN /\ last'.result = "failed"
                         /\ EventTypes(events') = <<"shield_defense">>
                         /\ <<planets', factions', fleets', siege'>>
                               = <<planets, factions, fleets, siege>>
                    ELSE /\ last'.result = "captured"
                         /\ EventTypes(events') = <<"planet_captured">>
                         /\ planets'[pid].owner = fid
                         /\ InList(pid, factions'[fid].planets)
                         /\ ~InList(pid, factions'[defender_id].planets)
                         /\ factions'[defender_id].defense_charges
                               = factions[defender_id].defense_charges
                         /\ siege' = siege
               ELSE ~InList("planet_captured", EventTypes(events'))]_vars

\* ai_0, left without a planet, took a planet by an assault
C28_Witness ==
    /\ last = Report("assault_planet", "captured", <<>>, "ai_0", last.planet)
    /\ EventTypes(events) = <<"planet_captured">>
    /\ factions["ai_0"].planets = <<last.planet>>


\* the siege points of attacker fid at planet pid in the siege table sg
SiegePoints(sg, pid, fid) == DictGet(DictGet(sg, pid, EmptyDict), fid, 0)

\* an assault of faction fid on planet pid meets a defender in defend mode
\* or a defense station, and the defender has a defense charge left
Blocked(pid, fid) ==
    LET defender == factions[planets[pid].owner] IN
    /\ ~Desperate(World, fid, pid)
    /\ defender.defense_charges > 0
    /\ \/ defender.strategy_mode = "defend"
       \/ InList("defense_station", planets[pid].buildings)

\* C29: an assault that is not desperate and meets a defender in defend
\* mode, or a defense station, with a defense charge left fails, costs the
\* defender exactly one charge (never below 0), leaves the planet with its
\* owner and the attacker's siege points as they are; the siege points of
\* an attacker grow only by 1, and only when an assault that is not blocked
\* loses the roll (defense_success)
C29_BlockedAttempt ==
    [][(HandlerStep("assault_planet") /\ turn' = turn)
         => LET fid == last'.faction
                pid == last'.planet
                defender_id == planets[pid].owner
            IN /\ Blocked(pid, fid)
                  => /\ last'.result = "failed"
                     /\ factions'[defender_id].defense_charges
                           = factions[defender_id].defense_charges - 1
                     /\ factions'[defender_id].defense_charges >= 0
                     /\ planets' = planets
                     /\ siege' = siege
               /\ ~Blocked(pid, fid)
                  => factions'[defender_id].defense_charges
                        = factions[defender_id].defense_charges
               /\ SiegePoints(siege', pid, fid) > SiegePoints(siege, pid, fid)
                  => /\ SiegePoints(siege', pid, fid) = SiegePoints(siege, pid, fid) + 1
                     /\ ~Blocked(pid, fid)
                     /\ last'.result = "failed"
                     /\ EventTypes(events') = <<"defense_success">>]_vars

\* an assault of the player on p1, which has no defense station, was
\* blocked by ai_0 in defend mode (no roll, so no event): ai_0 has no charge
\* left, keeps p1, and the player has no siege points
C29_Witness ==
    /\ last = Report("assault_planet", "failed", <<>>, "player", "p1")
    /\ events = <<>>
    /\ ~InList("defense_station", planets["p1"].buildings)
    /\ factions["ai_0"].strategy_mode = "defend"
    /\ factions["ai_0"].defense_charges = 0
    /\ planets["p1"].owner = "ai_0"
    /\ SiegePoints(siege, "p1", "player") = 0


\* round(0.7 * population): the nearest integer, the even one at a tie
RoundOf07(population) ==
    LET q == (7 * population) \div 10
        r == (7 * population) % 10
    IN IF r > 5 \/ (r = 5 /\ q % 2 = 1) THEN q + 1 ELSE q

\* C30: an assault that conquers a planet by the roll leaves it with the
\* population max(10, round(0.7 * population before)), rounded to the
\* nearest integer and not truncated
C30_CapturedPopulationRounded ==
    [][(HandlerStep("assault_planet") /\ turn' = turn
          /\ EventTypes(events') = <<"planet_conquered">>)
         => planets'[last'.planet].population
               = Max(10, RoundOf07(planets[last'.planet].population))]_vars


\* the strength of the fleets of faction fid that stand on planet pid
StrengthAt(fid, pid) ==
    SumOver(FleetsAt(World, fid, pid), [f \in DOMAIN fleets |-> get_strength(fleets[f])], 0)

\* no layer of the defense can stop an attempt on planet pid: its owner is
\* not in defend mode, the planet has no defense station and the owner has
\* neither tech_laser, tech_ftl nor a usable energy shield
Undefended(pid) ==
    LET defender == factions[planets[pid].owner] IN
    /\ defender.strategy_mode /= "defend"
    /\ ~InList("defense_station", planets[pid].buildings)
    /\ ~InList("tech_laser", defender.technologies)
    /\ ~InList("tech_ftl", defender.technologies)
    /\ ~_can_use_energy_shield(World, clock, planets[pid].owner)

\* C31: a turn conquers a planet by the roll only for a faction that had
\* positive fleet strength on the planet (with attack power 0 the roll is
\* never won, also against defense power 0), and an assault that is not
\* blocked and meets no fleet of the defender always conquers the planet
C31_CaptureNeedsStrength ==
    [][/\ (turn' = turn + 1 /\ last'.result = "done")
            => \A i \in DOMAIN events' :
                  events'[i].event_type = "planet_conquered"
                      => StrengthAt(events'[i].faction, events'[i].ref) > 0
       /\ (HandlerStep("assault_planet") /\ turn' = turn
             /\ ~Desperate(World, last'.faction, last'.planet)
             /\ Undefended(last'.planet)
             /\ StrengthAt(last'.faction, last'.planet) > 0
             /\ StrengthAt(planets[last'.planet].owner, last'.planet) = 0)
            => /\ last'.result = "captured"
               /\ EventTypes(events') = <<"planet_conquered">>]_vars

\* ai_0 attacked the player with no fleet of its own on p0 (attack power
\* 0): the attempt was lost, p0 is still the player's
C31_Witness ==
    /\ last.handler = "process_turn"
    /\ InList(Command("ai_0", "strategy", "attack", "player"), last.commands)
    /\ InList("defense_success", EventTypes(events))
    /\ fleets["fleet_player_0"].position = "p1"
    /\ fleets["fleet_player_0"].destination = NONE
    /\ fleets["fleet_ai_0_0"].position /= "p0"
    /\ planets["p0"].owner = "player"
    /\ SiegePoints(siege, "p0", "ai_0") = 0


\* faction fid attacks planet pid under the conditions of C32: the planet
\* belongs to another faction and has no defense station, fid has no siege
\* points against it, the beachhead protection is over, and neither side
\* has tech_laser or tech_ftl
Plain(fid, pid) ==
    /\ planets[pid].owner \in DOMAIN factions \ {fid}
    /\ ~InList("defense_station", planets[pid].buildings)
    /\ SiegePoints(siege, pid, fid) = 0
    /\ BeachheadMult(World, pid) = 10
    /\ \A f \in {fid, planets[pid].owner}, t \in {"tech_laser", "tech_ftl"} :
          ~InList(t, factions[f].technologies)

\* C32: for a planet without defenses attacked by a faction without attack
\* technology, the effective attack power is the raw strength of the
\* attacker's fleets on the planet and the effective defense power is the
\* raw strength of the defender's fleets there
C32_RawPower ==
    \A fid \in DOMAIN factions, pid \in DOMAIN planets :
        Plain(fid, pid)
            => LET power == _calc_capture_effective_power(
                                World, fid, planets[pid].owner, pid, BeachheadMult(World, pid))
               IN /\ power.atk_num = power.atk_raw * power.atk_den
                  /\ power.def_num = power.def_raw * power.def_den


\* the war-plan attempts of faction fid among the entries evs of one turn:
\* its conquests and the defense_success entries its war plan wrote for a
\* failed attempt (those without a capture report), two factions in play
Attempts(evs, fid) ==
    Cardinality({i \in DOMAIN evs :
        \/ evs[i].event_type = "planet_conquered" /\ evs[i].faction = fid
        \/ /\ evs[i].event_type = "defense_success"
           /\ evs[i].faction /= fid
           /\ evs[i].info = NONE})

\* the attack charges the refresh of a turn with these commands hands to fid
RefreshedCharges(fid, commands) ==
    {TurnEconomy(x, clock, victory_config).factions[fid].attack_charges :
        x \in {y \in _execute_commands([World EXCEPT !.turn = @ + 1,
                                                     !.colonize_counts = EmptyDict],
                                       commands) : y.exc = NONE}}

\* C33: in a processed turn every faction's refresh hands out 1 to 6 attack
\* charges, the charges left after the turn are the refreshed charges less
\* one per war-plan attempt and never negative, and a faction that is not
\* in attack mode or has no target after the commands makes no attempt
C33_AttemptsWithinCharges ==
    [][(turn' = turn + 1 /\ last'.result = "done") =>
        \A fid \in DOMAIN factions' :
            /\ RefreshedCharges(fid, last'.commands) \subseteq 1..MAX_CHARGES
            /\ factions'[fid].attack_charges >= 0
            /\ factions'[fid].attack_charges + Attempts(events', fid)
                  \in RefreshedCharges(fid, last'.commands)
            /\ (factions'[fid].strategy_mode /= "attack" \/ factions'[fid].war_target = NONE)
                  => Attempts(events', fid) = 0]_vars

\* a turn in which the player spent all three of its charges: two attempts
\* on p1 failed and the third took the planet
C33_Witness ==
    /\ last.handler = "process_turn" /\ last.result = "done"
    /\ Attempts(events, "player") = 3
    /\ factions["player"].attack_charges = 0
    /\ planets["p1"].owner = "player"


\* the positions in commands of the move orders faction-owned fleet fid obeys
MoveOrders(commands, fid) ==
    {i \in DOMAIN commands :
        /\ commands[i].command_type = "move"
        /\ commands[i].a = fid
        /\ commands[i].faction_id = fleets[fid].owner}

\* where fleet fid is bound for when the movement stage of a turn with
\* these commands begins: the destination of its last move order, or the
\* destination it had
BoundFor(commands, fid) ==
    IF MoveOrders(commands, fid) = {} THEN fleets[fid].destination
    ELSE commands[CHOOSE i \in MoveOrders(commands, fid) :
                     \A j \in MoveOrders(commands, fid) : j <= i].b

\* the turns fleet fid has travelled on its current order before a turn with
\* these commands
TurnsTravelled(commands, fid) ==
    IF MoveOrders(commands, fid) /= {} THEN 0
    ELSE fleets[fid].travel_progress
           \div (TRAVEL_ONE \div get_distance(fleets[fid].position, fleets[fid].destination))

\* the entries of evs of type t about fleet fid
FleetEvents(evs, t, fid) == {i \in DOMAIN evs : evs[i].event_type = t /\ evs[i].ref = fid}

\* C34: a fleet bound for a planet d >= 1 hops away that is not intercepted
\* keeps its position in the first d - 1 turns of the journey, and in turn d
\* it stands on the destination with destination cleared, travel progress 0
\* and exactly one fleet_arrived event
C34_ArrivesAfterDistance ==
    [][(turn' = turn + 1 /\ last'.result = "done") =>
        \A fid \in DOMAIN fleets \cap DOMAIN fleets' :
            LET dest == BoundFor(last'.commands, fid)
                d == get_distance(fleets[fid].position, dest)
                k == TurnsTravelled(last'.commands, fid)
            IN (/\ dest \in DOMAIN planets
                /\ d >= 1
                /\ FleetEvents(events', "fleet_intercepted", fid) = {})
               => IF k + 1 < d
                  THEN /\ fleets'[fid].position = fleets[fid].position
                       /\ fleets'[fid].destination = dest
                       /\ FleetEvents(events', "fleet_arrived", fid) = {}
                  ELSE /\ fleets'[fid].position = dest
                       /\ fleets'[fid].destination = NONE
                       /\ fleets'[fid].travel_progress = 0
                       /\ Cardinality(FleetEvents(events', "fleet_arrived", fid)) = 1]_vars


\* the proficiency fleet fid gained in the combat of a turn: its gain over
\* the turn less the 0.5 of each arrival
CombatGain(fid) ==
    fleets'[fid].proficiency - fleets[fid].proficiency
        - 5 * Cardinality(FleetEvents(events', "fleet_arrived", fid))

\* C35: after a combat the fleet of the recorded winner has gained 1.5
\* proficiency and the other fleet 1.0, capped at 100, whichever was examined
\* first; no turn lowers a fleet's proficiency or lifts it above 100
C35_WinnerGainsMore ==
    [][(last'.handler = "process_turn" /\ last'.result = "done" /\ turn' = turn + 1)
       => /\ \A e \in CombatEvents(events') :
                LET first_won == fleets[e.info.fleet1].owner = e.info.winner
                    won == IF first_won THEN e.info.fleet1 ELSE e.info.fleet2
                    lost == IF first_won THEN e.info.fleet2 ELSE e.info.fleet1
                IN (FoughtOnce(events', won) /\ FoughtOnce(events', lost)
                      /\ {won, lost} \subseteq DOMAIN fleets')
                   => /\ fleets'[won].proficiency
                            = Min(PROFICIENCY_CAP, fleets'[won].proficiency - CombatGain(won) + 15)
                      /\ fleets'[lost].proficiency
                            = Min(PROFICIENCY_CAP, fleets'[lost].proficiency - CombatGain(lost) + 10)
          /\ \A fid \in DOMAIN fleets \cap DOMAIN fleets' :
                /\ fleets'[fid].proficiency >= fleets[fid].proficiency
                /\ fleets'[fid].proficiency <= PROFICIENCY_CAP]_vars


\* C36: for every faction whose reputation lies in [0, 100] the reputation
\* modifier of the power score lies in [0.85, 1.15] (170 to 230 in the
\* model's unit of 1/200)
C36_ReputationModBounded ==
    \A f \in DOMAIN factions :
        factions[f].reputation \in 0..100
            => reputation_mod(factions[f].reputation) \in 170..230


\* the game_over entries among the entries evs
GameOverEvents(evs) == {i \in DOMAIN evs : evs[i].event_type = "game_over"}

RollFailures(evs, pid, aid) ==
    Cardinality({i \in DOMAIN evs :
        /\ evs[i].event_type = "defense_success"
        /\ evs[i].info = "capture"
        /\ evs[i].ref = pid
        /\ evs[i].faction /= aid})

\* planet pid changed hands by the roll among the entries evs
Conquered(evs, pid) ==
    \E i \in DOMAIN evs : evs[i].event_type = "planet_conquered" /\ evs[i].ref = pid

\* C38: the siege points a faction holds against a planet after a turn are
\* the points it held before the turn plus the rolls it lost there in the
\* turn, less the 1 of the decay at the end of the same turn (none after a
\* conquest by the roll); so one lost roll from no points leaves no points
\* for the next turn, and points carry into the next turn only from two
\* lost rolls or from points held before the turn
C38_DecayInSameTurn ==
    [][(turn' = turn + 1 /\ last'.result = "done") =>
        \A pid \in DOMAIN planets, aid \in DOMAIN factions :
            LET before == SiegePoints(siege, pid, aid)
                lost == RollFailures(events', pid, aid)
                after == SiegePoints(siege', pid, aid)
            IN /\ ~Conquered(events', pid) => after = Max(0, before + lost - 1)
               /\ (before = 0 /\ lost = 1) => after = 0
               /\ after > 0 => before + lost >= 2]_vars

\* a turn in which ai_0 lost exactly one roll against p0, which the player
\* still holds, and ends the turn without siege points against p0
C38_Witness ==
    /\ last.handler = "process_turn" /\ last.result = "done"
    /\ RollFailures(events, "p0", "ai_0") = 1
    /\ planets["p0"].owner = "player"
    /\ SiegePoints(siege, "p0", "ai_0") = 0


\* the movement stage of a turn with these commands finds fleet fid bound
\* for the planet it stands on or for a planet it cannot reach
Stalled(commands, fid) ==
    /\ BoundFor(commands, fid) /= NONE
    /\ get_distance(fleets[fid].position, BoundFor(commands, fid)) <= 0

\* C39: a turn leaves a fleet that is bound for its own position or for an
\* unreachable planet where it is, with the same destination and no travel
\* progress gained, and logs no arrival, interception or relocation of it
C39_StalledFleetUntouched ==
    [][(turn' = turn + 1 /\ last'.handler = "process_turn") =>
        \A fid \in DOMAIN fleets \cap DOMAIN fleets' :
            Stalled(last'.commands, fid)
            => /\ fleets'[fid].position = fleets[fid].position
               /\ fleets'[fid].destination = BoundFor(last'.commands, fid)
               /\ fleets'[fid].travel_progress
                     = IF MoveOrders(last'.commands, fid) = {}
                       THEN fleets[fid].travel_progress ELSE 0
               /\ FleetEvents(events', "fleet_arrived", fid) = {}
               /\ FleetEvents(events', "fleet_intercepted", fid) = {}
               /\ FleetEvents(events', "garrison_overflow", fid) = {}]_vars


\* the research_completed entries of evs for faction f and technology t
Completions(evs, f, t) ==
    {i \in DOMAIN evs : /\ evs[i].event_type = "research_completed"
                        /\ evs[i].faction = f /\ evs[i].ref = t}

\* C40: a turn logs research_completed for a faction and a technology at
\* most once and only for a technology the faction had not completed
\* before; the completed list only grows, by the technologies completed in
\* the turn, and holds no technology twice
C40_CompletedOnce ==
    [][(turn' = turn + 1 /\ last'.handler = "process_turn") =>
        \A f \in DOMAIN factions :
            /\ \A t \in DOMAIN technologies :
                  /\ Cardinality(Completions(events', f, t)) <= 1
                  /\ Completions(events', f, t) /= {}
                        => ~InList(t, factions[f].technologies)
                  /\ CountIn(factions'[f].technologies, t)
                        = CountIn(factions[f].technologies, t)
                            + Cardinality(Completions(events', f, t))
                  /\ CountIn(factions'[f].technologies, t) <= 1
            /\ Len(factions'[f].technologies) >= Len(factions[f].technologies)
            /\ SubSeq(factions'[f].technologies, 1, Len(factions[f].technologies))
                  = factions[f].technologies]_vars

\* the player completed tech_laser in an earlier turn and ordered it again:
\* it is in progress once more, and the turn completed nothing
C40_Witness ==
    /\ last.handler = "process_turn" /\ last.result = "done"
    /\ factions["player"].technologies = <<"tech_laser">>
    /\ "tech_laser" \in DOMAIN factions["player"].research_progress
    /\ ~HasEvent("research_completed")

====
